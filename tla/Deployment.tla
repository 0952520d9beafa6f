------------------------------ MODULE Deployment ------------------------------
(***************************************************************************)
(* The Ansible role that installs, migrates, updates and rolls back the    *)
(* service on a device. A run is the sequence of the role's tasks, those   *)
(* without an effect on the device joined with the next one that has one.  *)
(* Any task may fail, a controller may be cut off between any two, the     *)
(* service may crash and be started again by systemd at any time.          *)
(***************************************************************************)
EXTENDS Integers

CONSTANTS
    Controllers,   \* those who run the playbook against the device
    Versions,      \* the releases that are published
    Broken,        \* those whose service never answers the probe
    MaxRuns, MaxFaults, MaxCuts    \* bounds: runs, failed tasks, lost controllers

ASSUME DeploymentAssumption ==
    /\ Broken \subseteq Versions
    /\ {"none", "source", "legacy"} \cap Versions = {}
    /\ MaxRuns \in Nat /\ MaxFaults \in Nat /\ MaxCuts \in Nat

VARIABLES
    device,    \* the files of the device, what systemd has loaded, what runs
    run,       \* the run of each controller
    started, faults, cuts

bounds == <<started, faults, cuts>>
vars == <<device, run, started, faults, cuts>>

Directories == Versions \cup {"legacy"}

Device ==
    [lock: BOOLEAN,
     releases: [Directories -> {"absent", "partial", "complete"}],
     staging: [Controllers -> {"absent", "partial", "complete"}],
     next: Directories \cup {"none"},            \* .current-next
     current: Directories \cup {"none"},
     unit: {"none", "source", "release"},        \* the unit file, by its ExecStart
     override: BOOLEAN,                          \* the drop-in of a migration
     environment: BOOLEAN,
     loaded: {"none", "source", "release"},      \* the ExecStart systemd knows
     running: Directories \cup {"source", "none"}]

\* What the unit on disk amounts to, and what it starts, once loaded.
Effective(d) == IF d.override /\ d.unit # "none" THEN "release" ELSE d.unit
Target(d) == IF d.loaded = "release" THEN d.current ELSE d.loaded

Reload(d) == [d EXCEPT !.loaded = Effective(d)]
Stop(d) == [d EXCEPT !.running = "none"]
Restart(d) == [d EXCEPT !.running = Target(d)]

Bare == [lock |-> FALSE, releases |-> [v \in Directories |-> "absent"],
         staging |-> [c \in Controllers |-> "absent"], next |-> "none", current |-> "none",
         unit |-> "none", override |-> FALSE, environment |-> FALSE, loaded |-> "none",
         running |-> "none"]

\* A new device, with or without a configuration of its own; a device with a service
\* built from source; a device with a release.
Devices ==
    {Bare, [Bare EXCEPT !.environment = TRUE],
     [Bare EXCEPT !.unit = "source", !.loaded = "source", !.running = "source"]}
    \cup {[Bare EXCEPT !.releases[v] = "complete", !.current = v, !.unit = "release",
                       !.environment = TRUE, !.loaded = "release", !.running = v] :
            v \in Versions \ Broken}

-----------------------------------------------------------------------------
(* Tasks and sections.                                                     *)

Idle == [pc |-> "idle", action |-> "none", version |-> "none", fresh |-> FALSE,
         previous |-> "none", unitMade |-> FALSE, foundEnvironment |-> FALSE,
         outcome |-> "none", before |-> Bare]

Preparing == {"read", "stage", "extract", "publish", "verify", "backUp", "preserve", "inspect"}
Migrating == {"linkLegacy", "override", "reload"}
Activating == {"linkNext", "switch", "restart", "probe"}
Installing == {"environment", "link", "unit", "start", "firstProbe"}
UndoMigrating == {"removeOverride", "reloadOriginal", "removeLegacyLink"}
UndoActivating ==
    {"linkPrevious", "switchBack", "dropOverride", "recover", "probePrevious", "dropLink"}
UndoInstalling == {"stop", "removeUnit", "removeEnvironment", "reloadWithout"}
Cleaning == {"cleanUp", "unlock"}

Rescuing == UndoMigrating \cup UndoActivating \cup UndoInstalling
Tasks == Preparing \cup Migrating \cup Activating \cup Installing \cup Rescuing \cup Cleaning

\* block, rescue and always: where a run goes on when a task fails. A failure among
\* the last tasks leaves out those that follow.
OnFailure(pc) ==
    CASE pc \in Migrating -> "removeOverride"
      [] pc \in Activating -> "linkPrevious"
      [] pc \in Installing -> "stop"
      [] pc \in Preparing \cup Rescuing -> "cleanUp"
      [] pc \in Cleaning -> "stuck"

OutcomeOf(r) ==
    IF r.pc \in Rescuing THEN "unrecovered" ELSE IF r.pc \in Cleaning THEN r.outcome ELSE "failed"

FailedRun(c) ==
    [run EXCEPT ![c].pc = OnFailure(run[c].pc), ![c].outcome = OutcomeOf(run[c])]

\* A task that succeeds.
Done(c, from, to, d) ==
    /\ run[c].pc = from
    /\ device' = d
    /\ run' = [run EXCEPT ![c].pc = to]
    /\ UNCHANGED bounds

\* An assertion of the role that does not hold.
Assert(c, holds, from, to, d) ==
    /\ run[c].pc = from
    /\ IF holds THEN Done(c, from, to, d)
       ELSE run' = FailedRun(c) /\ UNCHANGED device /\ UNCHANGED bounds

\* The tasks have done what they do.
Finished(c, from, outcome) ==
    /\ run[c].pc = from
    /\ run' = [run EXCEPT ![c].pc = "cleanUp", ![c].outcome = outcome]
    /\ UNCHANGED device /\ UNCHANGED bounds

\* What a task that fails may have done; services may have been stopped or started.
Halfway(c) ==
    CASE run[c].pc = "restart" -> {device, Stop(device), Restart(device)}
      [] run[c].pc \in {"start", "recover"} ->
           {device, Reload(device), Stop(Reload(device)), Restart(Reload(device))}
      [] run[c].pc = "stop" -> {device, Reload(device), Stop(Reload(device))}
      [] run[c].pc = "removeUnit" ->
           {device, [device EXCEPT !.unit = "none"], [device EXCEPT !.current = "none"]}
      [] OTHER -> {device}

Fail(c) ==
    /\ run[c].pc \in Tasks
    /\ faults < MaxFaults /\ faults' = faults + 1
    /\ device' \in Halfway(c)
    /\ run' = FailedRun(c)
    /\ UNCHANGED <<started, cuts>>

-----------------------------------------------------------------------------
(* main.yaml                                                               *)

\* Mutation: the lock is acquired inside the block whose last task removes it.
AcquireInside(c) ==
    /\ run[c].pc = "lock"
    /\ device' = [device EXCEPT !.lock = TRUE]
    /\ run' = [run EXCEPT ![c].pc = IF device.lock THEN "cleanUp" ELSE "read",
                          ![c].outcome = IF device.lock THEN "failed" ELSE "none",
                          ![c].before = device]
    /\ UNCHANGED bounds

StartRun(c) ==
    /\ run[c].pc = "idle"
    /\ started < MaxRuns /\ started' = started + 1
    /\ \E a \in {"deploy", "migrate", "rollback"}, v \in Versions :
         run' = [run EXCEPT ![c] = [Idle EXCEPT !.pc = "lock", !.action = a, !.version = v]]
    /\ UNCHANGED <<device, faults, cuts>>

\* mkdir fails where there is a directory already: the run is over, it cleans up nothing.
Acquire(c) ==
    /\ run[c].pc = "lock"
    /\ IF device.lock
         THEN run' = [run EXCEPT ![c] = Idle] /\ UNCHANGED device
         ELSE /\ device' = [device EXCEPT !.lock = TRUE]
              /\ run' = [run EXCEPT ![c].pc = "read", ![c].before = device]
    /\ UNCHANGED bounds

\* validate_state.yaml
Valid(action, fresh, view) ==
    \/ fresh /\ view.current = "none" /\ ~view.override
    \/ view.loaded # "none" /\ action = "migrate" /\ view.current = "none" /\ ~view.override
    \/ action # "migrate" /\ view.current # "none" /\ view.loaded = "release"

\* A unit that systemd has not loaded may be loaded because it is asked for.
Views == {device} \cup IF device.loaded = "none" THEN {Reload(device)} ELSE {}

ReadState(c) ==
    LET action == run[c].action IN
    /\ run[c].pc = "read"
    /\ \E view \in Views :
         LET fresh == action = "deploy" /\ view.loaded = "none" IN
         /\ device' = view
         /\ IF Valid(action, fresh, view)
              THEN run' = [run EXCEPT ![c].pc = IF action = "rollback" THEN "verify" ELSE "stage",
                                      ![c].fresh = fresh, ![c].previous = view.current]
              ELSE run' = FailedRun(c)
    /\ UNCHANGED bounds

\* The directory is there and its program runs.
Verify(c) ==
    Assert(c, device.releases[run[c].version] = "complete", "verify",
           CASE run[c].action = "migrate" -> "backUp"
             [] run[c].fresh -> "inspect"
             [] OTHER -> IF run[c].previous = run[c].version THEN "probe" ELSE "linkNext",
           device)

\* always: the directories of this run, and the lock at the end.
CleanUp(c) == Done(c, "cleanUp", "unlock", [device EXCEPT !.staging[c] = "absent"])

Unlock(c) ==
    /\ run[c].pc = "unlock"
    /\ device' = [device EXCEPT !.lock = FALSE]
    /\ run' = [run EXCEPT ![c] = Idle]
    /\ UNCHANGED bounds

-----------------------------------------------------------------------------
(* stage.yaml                                                              *)

\* Mutation: the archive is extracted where the release belongs.
StageInPlace(c) ==
    Done(c, "stage", "extract", [device EXCEPT !.releases[run[c].version] = "partial"])

\* The archive has been downloaded and verified on the controller.
Stage(c) == Done(c, "stage", "extract", [device EXCEPT !.staging[c] = "partial"])

Extract(c) == Done(c, "extract", "publish", [device EXCEPT !.staging[c] = "complete"])

\* A release that is there already must have the same content, and is left alone.
Publish(c) ==
    LET v == run[c].version IN
    IF run[c].pc = "publish" /\ device.releases[v] = "absent"
      THEN Done(c, "publish", "verify", [device EXCEPT !.releases[v] = device.staging[c],
                                                       !.staging[c] = "absent"])
      ELSE Assert(c, device.releases[v] = device.staging[c], "publish", "verify", device)

-----------------------------------------------------------------------------
(* migrate.yaml                                                            *)

\* A directory with the time in its name.
BackUp(c) == Done(c, "backUp", "preserve", [device EXCEPT !.releases["legacy"] = "partial"])

\* There is no program to copy if the unit starts one through a link that is gone.
Preserve(c) ==
    Assert(c, device.loaded = "source", "preserve", "linkLegacy",
           [device EXCEPT !.releases["legacy"] = "complete"])

LinkLegacy(c) == Done(c, "linkLegacy", "override", [device EXCEPT !.current = "legacy"])

Override(c) == Done(c, "override", "reload", [device EXCEPT !.override = TRUE])

ReloadMigrated(c) ==
    /\ run[c].pc = "reload"
    /\ device' = Reload(device)
    /\ run' = [run EXCEPT ![c].pc = "linkNext", ![c].previous = "legacy"]
    /\ UNCHANGED bounds

RemoveOverride(c) == Done(c, "removeOverride", "reloadOriginal", [device EXCEPT !.override = FALSE])

ReloadOriginal(c) == Done(c, "reloadOriginal", "removeLegacyLink", Reload(device))

RemoveLegacyLink(c) == Done(c, "removeLegacyLink", "cleanUp", [device EXCEPT !.current = "none"])

Migrate(c) ==
    \/ BackUp(c) \/ Preserve(c) \/ LinkLegacy(c) \/ Override(c) \/ ReloadMigrated(c)
    \/ RemoveOverride(c) \/ ReloadOriginal(c) \/ RemoveLegacyLink(c)

-----------------------------------------------------------------------------
(* activate.yaml                                                           *)

\* probe.yaml: three answers in a row, and the service is active.
Answers == device.running \notin Broken \cup {"none"}

LinkNext(c) == Done(c, "linkNext", "switch", [device EXCEPT !.next = run[c].version])

\* mv -T replaces the link in one step.
Switch(c) ==
    Done(c, "switch", "restart", [device EXCEPT !.current = device.next, !.next = "none"])

\* Mutation: the service is left to start the new release when it likes.
RestartLazily(c) == Done(c, "restart", "probe", device)

RestartService(c) == Done(c, "restart", "probe", Restart(device))

Probe(c) ==
    IF Answers THEN Finished(c, "probe", "succeeded")
    ELSE run[c].pc = "probe" /\ run' = FailedRun(c) /\ UNCHANGED device /\ UNCHANGED bounds

LinkPrevious(c) == Done(c, "linkPrevious", "switchBack", [device EXCEPT !.next = run[c].previous])

SwitchBack(c) ==
    Done(c, "switchBack", IF run[c].action = "migrate" THEN "dropOverride" ELSE "recover",
         [device EXCEPT !.current = device.next, !.next = "none"])

DropOverride(c) == Done(c, "dropOverride", "recover", [device EXCEPT !.override = FALSE])

\* Mutation: systemd keeps the ExecStart of the migration.
RecoverUnloaded(c) == Done(c, "recover", "probePrevious", Restart(device))

Recover(c) == Done(c, "recover", "probePrevious", Restart(Reload(device)))

\* Mutation: the probe of the recovered service waits for as long as it takes.
ProbeForever(c) == Answers /\ Done(c, "probePrevious", "cleanUp", device)

ProbePrevious(c) ==
    Assert(c, Answers, "probePrevious",
           IF run[c].action = "migrate" THEN "dropLink" ELSE "cleanUp", device)

DropLink(c) == Done(c, "dropLink", "cleanUp", [device EXCEPT !.current = "none"])

Activate(c) ==
    \/ LinkNext(c) \/ Switch(c) \/ RestartService(c) \/ Probe(c)
    \/ LinkPrevious(c) \/ SwitchBack(c) \/ DropOverride(c) \/ Recover(c)
    \/ ProbePrevious(c) \/ DropLink(c)

-----------------------------------------------------------------------------
(* install.yaml                                                            *)

\* A unit file that systemd does not know is not ours to replace.
Inspect(c) ==
    /\ run[c].pc = "inspect"
    /\ run' = IF device.unit = "none"
                THEN [run EXCEPT ![c].pc = "environment",
                                 ![c].foundEnvironment = device.environment]
                ELSE FailedRun(c)
    /\ UNCHANGED device /\ UNCHANGED bounds

\* force: false
CreateEnvironment(c) == Done(c, "environment", "link", [device EXCEPT !.environment = TRUE])

Link(c) == Done(c, "link", "unit", [device EXCEPT !.current = run[c].version])

InstallUnit(c) ==
    /\ run[c].pc = "unit"
    /\ device' = [device EXCEPT !.unit = "release"]
    /\ run' = [run EXCEPT ![c].pc = "start", ![c].unitMade = device.unit # "release"]
    /\ UNCHANGED bounds

StartService(c) == Done(c, "start", "firstProbe", Restart(Reload(device)))

FirstProbe(c) ==
    IF Answers THEN Finished(c, "firstProbe", "succeeded")
    ELSE run[c].pc = "firstProbe" /\ run' = FailedRun(c) /\ UNCHANGED device /\ UNCHANGED bounds

StopService(c) ==
    Done(c, "stop", "removeUnit", IF run[c].unitMade THEN Stop(Reload(device)) ELSE device)

RemoveUnit(c) ==
    Done(c, "removeUnit", "removeEnvironment",
         [device EXCEPT !.unit = "none", !.current = "none"])

\* Mutation: the configuration is removed whoever wrote it.
RemoveAnyEnvironment(c) ==
    Done(c, "removeEnvironment", "reloadWithout", [device EXCEPT !.environment = FALSE])

RemoveEnvironment(c) ==
    Done(c, "removeEnvironment", "reloadWithout",
         [device EXCEPT !.environment = @ /\ run[c].foundEnvironment])

ReloadWithout(c) == Done(c, "reloadWithout", "cleanUp", Reload(device))

Install(c) ==
    \/ Inspect(c) \/ CreateEnvironment(c) \/ Link(c) \/ InstallUnit(c) \/ StartService(c)
    \/ FirstProbe(c) \/ StopService(c) \/ RemoveUnit(c) \/ RemoveEnvironment(c)
    \/ ReloadWithout(c)

-----------------------------------------------------------------------------
(* The device and the people around it.                                    *)

Holding(c) == run[c].pc \notin {"idle", "lock"}

\* The controller stops or loses its connection: no task follows, not even the last.
Cut(c) ==
    /\ run[c].pc \in Tasks
    /\ cuts < MaxCuts /\ cuts' = cuts + 1
    /\ run' = [run EXCEPT ![c].pc = "cut"]
    /\ UNCHANGED <<device, started, faults>>

\* The operator removes a lock that was left behind.
RemoveLock(c) ==
    /\ run[c].pc \in {"cut", "stuck"}
    /\ device' = [device EXCEPT !.lock = FALSE]
    /\ run' = [run EXCEPT ![c] = Idle]
    /\ UNCHANGED bounds

\* The process dies, and systemd starts what it has loaded.
Respawn ==
    /\ device.running # "none"
    /\ device' = Restart(device)
    /\ UNCHANGED run /\ UNCHANGED bounds

Perform(c) ==
    \/ Acquire(c) \/ ReadState(c) \/ Stage(c) \/ Extract(c) \/ Publish(c) \/ Verify(c)
    \/ Migrate(c) \/ Activate(c) \/ Install(c) \/ CleanUp(c) \/ Unlock(c)

Init ==
    /\ device \in Devices
    /\ run = [c \in Controllers |-> Idle]
    /\ started = 0 /\ faults = 0 /\ cuts = 0

Next ==
    \/ \E c \in Controllers : StartRun(c) \/ Perform(c) \/ Fail(c) \/ Cut(c) \/ RemoveLock(c)
    \/ Respawn

Spec == Init /\ [][Next]_vars

\* Every task ends by itself: commands, retries and pauses are bounded.
FairSpec == Spec /\ \A c \in Controllers : WF_vars(Perform(c))

-----------------------------------------------------------------------------
(* Properties.                                                             *)

TypeOK ==
    /\ device \in Device
    /\ \A c \in Controllers :
         /\ run[c].pc \in Tasks \cup {"idle", "lock", "cut", "stuck"}
         /\ run[c].action \in {"none", "deploy", "migrate", "rollback"}
         /\ run[c].version \in Versions \cup {"none"}
         /\ run[c].previous \in Directories \cup {"none"}
         /\ run[c].outcome \in {"none", "succeeded", "failed", "unrecovered"}
    /\ started \in 0..MaxRuns /\ faults \in 0..MaxFaults /\ cuts \in 0..MaxCuts

\* A device-wide lock prevents concurrent deployments (RELEASE.md:160): whoever works
\* on the device has the lock and is alone, whatever fails, and a run that was refused
\* never takes the lock away from the one it belongs to.
OneDeployment ==
    \A c \in Controllers : Holding(c) =>
        device.lock /\ \A other \in Controllers : Holding(other) => other = c

\* current and the link that will replace it point to a complete release at every
\* moment, also while one is transferred, and after a run that failed or was cut off.
LinksComplete ==
    \A d \in {device.current, device.next} \ {"none"} : device.releases[d] = "complete"

\* The preserved copy is the program that was built from source.
Program(d) == IF d = "legacy" THEN "source" ELSE d

\* A run that failed, and whose rescue did not fail as well, leaves the links, the unit,
\* the override and the configuration as it found them, systemd knowing them, and the
\* service it found running or the one that belongs to the restored link; a failed first
\* installation leaves nothing (RELEASE.md:151-158).
FailedRunRestores ==
    \A c \in Controllers :
        LET before == run[c].before IN
        run[c].pc = "cleanUp" /\ run[c].outcome = "failed" =>
            /\ device.current = before.current /\ device.unit = before.unit
            /\ device.override = before.override /\ device.environment = before.environment
            /\ device.loaded \in {before.loaded, Effective(before)}
            /\ Program(device.running) \in
                 {Program(d.running) : d \in {before, Restart(before), Restart(Reload(before))}}

\* A run that succeeded leaves the requested release linked, loaded, running and
\* answering, if the service ran what was linked when the run began.
SuccessRunsRequested ==
    \A c \in Controllers :
        run[c].pc = "cleanUp" /\ run[c].outcome = "succeeded" =>
            /\ device.current = run[c].version /\ device.loaded = "release"
            /\ run[c].before.running = Target(run[c].before) =>
                 device.running = run[c].version /\ run[c].version \notin Broken

\* "Applying the active version verifies it without restarting" (RELEASE.md:142): a run
\* that succeeded has verified the requested release, it is what runs.
SuccessVerifies ==
    \A c \in Controllers :
        run[c].pc = "cleanUp" /\ run[c].outcome = "succeeded" =>
            device.running = run[c].version

\* A run removes only what it has made itself: links, unit, override and configuration
\* that were there before are never missing, not for one step ("atomically changing
\* current", "existing configuration remains", RELEASE.md:141,156).
RemovesOnlyItsOwn ==
    [][\A f \in {"current", "unit", "override", "environment"} :
         device[f] # Bare[f] /\ device'[f] = Bare[f] =>
             \E c \in Controllers : Holding(c) /\ run[c].before[f] = Bare[f]]_vars

\* Every run ends and gives the lock back, unless its controller was cut off or one of
\* its last tasks failed.
RunEnds ==
    \A c \in Controllers : run[c].pc # "idle" ~> run[c].pc \in {"idle", "cut", "stuck"}
=============================================================================
