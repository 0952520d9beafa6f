---------------------------- MODULE DeploymentProofs ----------------------------
(***************************************************************************)
(* Deployments exclude each other, the links always point to complete      *)
(* releases, a failed run leaves the device as it found it, a successful   *)
(* one leaves the release it was asked for, and no run removes what it has *)
(* not made: for any number of controllers and runs, wherever tasks fail   *)
(* and controllers are cut off.                                            *)
(***************************************************************************)
EXTENDS Deployment, TLAPS

Steps == Tasks \cup {"idle", "lock", "cut", "stuck"}

Run ==
    [pc: Steps, action: {"none", "deploy", "migrate", "rollback"},
     version: Versions \cup {"none"}, fresh: BOOLEAN, previous: Directories \cup {"none"},
     unitMade: BOOLEAN, foundEnvironment: BOOLEAN,
     outcome: {"none", "succeeded", "failed", "unrecovered"}, before: Device]

Types == device \in Device /\ run \in [Controllers -> Run]

\* The invariant is inductive with the types alone.
Exclusive == Types /\ OneDeployment

\* Each task by its name, and the places of a run that are none.
LEMMA TaskNames ==
    /\ "read" \in Tasks /\ "stage" \in Tasks /\ "extract" \in Tasks
    /\ "publish" \in Tasks /\ "verify" \in Tasks /\ "backUp" \in Tasks
    /\ "preserve" \in Tasks /\ "inspect" \in Tasks /\ "linkLegacy" \in Tasks
    /\ "override" \in Tasks /\ "reload" \in Tasks /\ "linkNext" \in Tasks
    /\ "switch" \in Tasks /\ "restart" \in Tasks /\ "probe" \in Tasks
    /\ "environment" \in Tasks /\ "link" \in Tasks /\ "unit" \in Tasks
    /\ "start" \in Tasks /\ "firstProbe" \in Tasks /\ "removeOverride" \in Tasks
    /\ "reloadOriginal" \in Tasks /\ "removeLegacyLink" \in Tasks
    /\ "linkPrevious" \in Tasks /\ "switchBack" \in Tasks /\ "dropOverride" \in Tasks
    /\ "recover" \in Tasks /\ "probePrevious" \in Tasks /\ "dropLink" \in Tasks
    /\ "stop" \in Tasks /\ "removeUnit" \in Tasks /\ "removeEnvironment" \in Tasks
    /\ "reloadWithout" \in Tasks /\ "cleanUp" \in Tasks /\ "unlock" \in Tasks
    /\ Tasks \subseteq Steps
    /\ "idle" \notin Tasks /\ "lock" \notin Tasks /\ "cut" \notin Tasks /\ "stuck" \notin Tasks
BY DEF Tasks, Preparing, Migrating, Activating, Installing, Rescuing, UndoMigrating,
       UndoActivating, UndoInstalling, Cleaning, Steps

\* A device before its first deployment is a device.
LEMMA BareIsDevice == Bare \in Device /\ Bare.lock = FALSE
BY DEF Bare, Device

\* What systemd does keeps the device, its lock included.
LEMMA ServiceTypes ==
    ASSUME NEW d \in Device
    PROVE  /\ Reload(d) \in Device /\ Reload(d).lock = d.lock
           /\ Stop(d) \in Device /\ Stop(d).lock = d.lock
           /\ Restart(d) \in Device /\ Restart(d).lock = d.lock
<1>1. Effective(d) \in {"none", "source", "release"}
  BY DEF Effective, Device
<1>2. Target(d) \in Directories \cup {"source", "none"}
  BY DEF Target, Device
<1>3. Reload(d) \in Device /\ Reload(d).lock = d.lock
  BY <1>1 DEF Reload, Device
<1>4. Stop(d) \in Device /\ Stop(d).lock = d.lock
  BY DEF Stop, Device
<1>5. Restart(d) \in Device /\ Restart(d).lock = d.lock
  BY <1>2 DEF Restart, Device
<1> QED
  BY <1>3, <1>4, <1>5

\* The fields that tasks change together keep the run of its type.
LEMMA RunTypes ==
    ASSUME NEW r \in Run, NEW pc \in Steps, NEW p \in Directories \cup {"none"},
           NEW f \in BOOLEAN, NEW o \in {"none", "succeeded", "failed", "unrecovered"},
           NEW d \in Device
    PROVE  /\ [r EXCEPT !.pc = pc, !.outcome = o] \in Run
           /\ [r EXCEPT !.pc = pc, !.fresh = f, !.previous = p] \in Run
           /\ [r EXCEPT !.pc = pc, !.previous = p] \in Run
           /\ [r EXCEPT !.pc = pc, !.unitMade = f] \in Run
           /\ [r EXCEPT !.pc = pc, !.foundEnvironment = f] \in Run
           /\ [r EXCEPT !.pc = pc, !.before = d] \in Run
<1>1. [r EXCEPT !.pc = pc, !.outcome = o] \in Run BY Zenon DEF Run
<1>2. [r EXCEPT !.pc = pc, !.fresh = f, !.previous = p] \in Run BY Zenon DEF Run
<1>3. [r EXCEPT !.pc = pc, !.previous = p] \in Run BY Zenon DEF Run
<1>4. [r EXCEPT !.pc = pc, !.unitMade = f] \in Run BY Zenon DEF Run
<1>5. [r EXCEPT !.pc = pc, !.foundEnvironment = f] \in Run BY Zenon DEF Run
<1>6. [r EXCEPT !.pc = pc, !.before = d] \in Run BY Zenon DEF Run
<1> QED
  BY <1>1, <1>2, <1>3, <1>4, <1>5, <1>6

-----------------------------------------------------------------------------
(* Steps of a run that has the lock.                                       *)

\* The run and the device are what their types say.
LEMMA Typed ==
    ASSUME Exclusive, NEW c \in Controllers
    PROVE  /\ device \in Device /\ run[c] \in Run
           /\ run[c].version \in Directories \cup {"none"}
           /\ run[c].previous \in Directories \cup {"none"}
           /\ device.next \in Directories \cup {"none"}
           /\ device.current \in Directories \cup {"none"}
           /\ "legacy" \in Directories
BY DEF Exclusive, Types, Run, Device, Directories

\* A step of the run that holds the lock, to another of its steps.
LEMMA HolderKeeps ==
    ASSUME Exclusive, NEW c \in Controllers, Holding(c),
           device' \in Device, device'.lock = device.lock,
           NEW r \in Run, r.pc \notin {"idle", "lock"}, run' = [run EXCEPT ![c] = r]
    PROVE  Exclusive'
<1>1. Types'
  BY DEF Exclusive, Types
<1>2. \A o \in Controllers : Holding(o)' => o = c
  BY DEF Exclusive, Types, OneDeployment, Holding
<1>3. device.lock
  BY DEF Exclusive, OneDeployment
<1> QED
  BY <1>1, <1>2, <1>3 DEF Exclusive, OneDeployment

\* A task that succeeds.
LEMMA DoneKeeps ==
    ASSUME Exclusive, NEW c \in Controllers, NEW from \in Tasks, NEW to \in Tasks,
           NEW d \in Device, d.lock = device.lock, Done(c, from, to, d)
    PROVE  Exclusive'
<1> DEFINE r == [run[c] EXCEPT !.pc = to]
<1>1. run' = [run EXCEPT ![c] = r] /\ device' = d /\ run[c].pc = from
  BY DEF Done, Exclusive, Types
<1>2. r \in Run /\ r.pc = to
  BY TaskNames DEF Exclusive, Types, Run
<1>3. Holding(c)
  BY <1>1, TaskNames DEF Holding
<1>4. to \notin {"idle", "lock"}
  BY TaskNames
<1> HIDE DEF r
<1> QED
  BY <1>1, <1>2, <1>3, <1>4, HolderKeeps

\* A task that fails, at an assertion or otherwise.
LEMMA FailedKeeps ==
    ASSUME Exclusive, NEW c \in Controllers, run[c].pc \in Tasks,
           device' \in Device, device'.lock = device.lock, run' = FailedRun(c)
    PROVE  Exclusive'
<1> DEFINE r == [run[c] EXCEPT !.pc = OnFailure(run[c].pc), !.outcome = OutcomeOf(run[c])]
<1>1. run' = [run EXCEPT ![c] = r]
  BY DEF FailedRun, Exclusive, Types
<1>2. OnFailure(run[c].pc) \in {"removeOverride", "linkPrevious", "stop", "cleanUp", "stuck"}
  BY DEF OnFailure, Tasks, Rescuing
<1>3. OutcomeOf(run[c]) \in {"none", "succeeded", "failed", "unrecovered"}
  BY DEF OutcomeOf, Exclusive, Types, Run
<1>4. OnFailure(run[c].pc) \in Steps \ {"idle", "lock"}
  BY <1>2, TaskNames DEF Steps
<1>5. r \in Run /\ r.pc \notin {"idle", "lock"}
  <2>1. r \in Run
    BY <1>3, <1>4, RunTypes, Typed
  <2>2. r.pc \notin {"idle", "lock"}
    BY <1>4, Typed DEF Run
  <2> QED
    BY <2>1, <2>2
<1>6. Holding(c)
  BY TaskNames DEF Holding
<1> HIDE DEF r
<1> QED
  BY <1>1, <1>5, <1>6, HolderKeeps

\* Changes of single files leave a device, and its lock as it was.
LEMMA FileTypes ==
    ASSUME Exclusive, NEW c \in Controllers,
           NEW link \in Directories \cup {"none"}, NEW kept \in BOOLEAN, NEW v,
           NEW content \in {"absent", "partial", "complete"}, NEW d,
           \/ d = [device EXCEPT !.staging[c] = content]
           \/ d = [device EXCEPT !.releases[v] = content]
           \/ d = [device EXCEPT !.next = link]
           \/ d = [device EXCEPT !.current = link]
           \/ d = [device EXCEPT !.current = device.next, !.next = "none"]
           \/ d = [device EXCEPT !.unit = "none", !.current = "none"]
           \/ d = [device EXCEPT !.unit = "none"]
           \/ d = [device EXCEPT !.unit = "release"]
           \/ d = [device EXCEPT !.override = kept]
           \/ d = [device EXCEPT !.environment = kept]
    PROVE  d \in Device /\ d.lock = device.lock
<1>1. device \in Device
  BY Typed
<1>2. CASE d = [device EXCEPT !.staging[c] = content]
  BY <1>1, <1>2 DEF Device
<1>3. CASE d = [device EXCEPT !.releases[v] = content]
  BY <1>1, <1>3 DEF Device
<1>4. CASE d = [device EXCEPT !.next = link] \/ d = [device EXCEPT !.current = link]
  BY <1>1, <1>4 DEF Device
<1>5. CASE d = [device EXCEPT !.current = device.next, !.next = "none"]
  BY <1>1, <1>5 DEF Device
<1>6. CASE d = [device EXCEPT !.unit = "none", !.current = "none"]
  BY <1>1, <1>6 DEF Device
<1>7. CASE d = [device EXCEPT !.unit = "none"]
  BY <1>1, <1>7 DEF Device
<1>8. CASE d = [device EXCEPT !.unit = "release"]
  BY <1>1, <1>8 DEF Device
<1>9. CASE d = [device EXCEPT !.override = kept]
  BY <1>1, <1>9 DEF Device
<1>10. CASE d = [device EXCEPT !.environment = kept]
  BY <1>1, <1>10 DEF Device
<1> QED
  BY <1>2, <1>3, <1>4, <1>5, <1>6, <1>7, <1>8, <1>9, <1>10

\* stage.yaml, migrate.yaml
LEMMA StagingKeeps ==
    ASSUME Exclusive, NEW c \in Controllers,
           Stage(c) \/ Extract(c) \/ Publish(c) \/ CleanUp(c)
    PROVE  Exclusive'
<1> DEFINE staged(content) == [device EXCEPT !.staging[c] = content]
<1>1. \A content \in {"absent", "partial", "complete"} :
        staged(content) \in Device /\ staged(content).lock = device.lock
  BY Typed DEF Device
<1> HIDE DEF staged
<1>2. CASE Stage(c)
  <2>1. Done(c, "stage", "extract", staged("partial"))
    BY <1>2 DEF Stage, staged
  <2> QED
    BY <1>1, <2>1, DoneKeeps, TaskNames
<1>3. CASE Extract(c)
  <2>1. Done(c, "extract", "publish", staged("complete"))
    BY <1>3 DEF Extract, staged
  <2> QED
    BY <1>1, <2>1, DoneKeeps, TaskNames
<1>4. CASE Publish(c)
  <2> DEFINE v == run[c].version
             d == [device EXCEPT !.releases[v] = device.staging[c], !.staging[c] = "absent"]
  <2>1. d \in Device /\ d.lock = device.lock
    BY Typed DEF Device
  <2>2. CASE Done(c, "publish", "verify", d)
    <3> HIDE DEF d
    <3> QED
      BY <2>1, <2>2, DoneKeeps, TaskNames
  <2>3. CASE Assert(c, device.releases[v] = device.staging[c], "publish", "verify", device)
    <3>1. CASE Done(c, "publish", "verify", device)
      BY <3>1, DoneKeeps, TaskNames, Typed
    <3>2. CASE run[c].pc = "publish" /\ run' = FailedRun(c) /\ UNCHANGED device
      BY <3>2, FailedKeeps, TaskNames, Typed
    <3> QED
      BY <2>3, <3>1, <3>2 DEF Assert
  <2> QED
    BY <1>4, <2>2, <2>3 DEF Publish
<1>5. CASE CleanUp(c)
  <2>1. Done(c, "cleanUp", "unlock", staged("absent"))
    BY <1>5 DEF CleanUp, staged
  <2> QED
    BY <1>1, <2>1, DoneKeeps, TaskNames
<1> QED
  BY <1>2, <1>3, <1>4, <1>5

\* main.yaml: the state is read, the release verified.
LEMMA ReadingKeeps ==
    ASSUME Exclusive, NEW c \in Controllers, ReadState(c) \/ Verify(c)
    PROVE  Exclusive'
<1>1. CASE ReadState(c)
  <2>1. PICK view \in Views :
          LET fresh == run[c].action = "deploy" /\ view.loaded = "none" IN
          /\ device' = view
          /\ IF Valid(run[c].action, fresh, view)
               THEN run' = [run EXCEPT ![c].pc = IF run[c].action = "rollback"
                                                   THEN "verify" ELSE "stage",
                                       ![c].fresh = fresh, ![c].previous = view.current]
               ELSE run' = FailedRun(c)
    BY <1>1 DEF ReadState
  <2>2. view \in Device /\ view.lock = device.lock
    BY Typed, ServiceTypes DEF Views
  <2>3. run[c].pc = "read" /\ run[c].pc \in Tasks /\ Holding(c)
    BY <1>1, TaskNames DEF ReadState, Holding
  <2>4. CASE run' = FailedRun(c)
    BY <2>1, <2>2, <2>3, <2>4, FailedKeeps
  <2>5. CASE run' # FailedRun(c)
    <3> DEFINE fresh == run[c].action = "deploy" /\ view.loaded = "none"
               to == IF run[c].action = "rollback" THEN "verify" ELSE "stage"
               r == [run[c] EXCEPT !.pc = to, !.fresh = fresh, !.previous = view.current]
    <3>1. run' = [run EXCEPT ![c] = r]
      BY <2>1, <2>5 DEF Exclusive, Types
    <3>2. to \in Steps \ {"idle", "lock"}
      BY TaskNames
    <3>3. view.current \in Directories \cup {"none"} /\ fresh \in BOOLEAN
      BY <2>2 DEF Device
    <3>4. r \in Run /\ r.pc \notin {"idle", "lock"}
      <4>1. r \in Run
        BY <3>2, <3>3, RunTypes, Typed
      <4>2. r.pc \notin {"idle", "lock"}
        BY <3>2, Typed DEF Run
      <4> QED
        BY <4>1, <4>2
    <3> HIDE DEF r
    <3> QED
      BY <2>1, <2>2, <2>3, <3>1, <3>4, HolderKeeps
  <2> QED
    BY <2>4, <2>5
<1>2. CASE Verify(c)
  <2> DEFINE to == CASE run[c].action = "migrate" -> "backUp"
                     [] run[c].fresh -> "inspect"
                     [] OTHER -> IF run[c].previous = run[c].version
                                   THEN "probe" ELSE "linkNext"
  <2>1. to \in {"backUp", "inspect", "probe", "linkNext"}
    OBVIOUS
  <2>2. \/ Done(c, "verify", to, device)
        \/ run[c].pc = "verify" /\ run' = FailedRun(c) /\ UNCHANGED device
    BY <1>2 DEF Verify, Assert
  <2> HIDE DEF to
  <2>3. to \in Tasks
    BY <2>1, TaskNames
  <2> QED
    BY <2>2, <2>3, DoneKeeps, FailedKeeps, TaskNames, Typed
<1> QED
  BY <1>1, <1>2

\* migrate.yaml
LEMMA MigrateKeeps ==
    ASSUME Exclusive, NEW c \in Controllers, Migrate(c)
    PROVE  Exclusive'
<1> DEFINE kept(content) == [device EXCEPT !.releases["legacy"] = content]
           linked(link) == [device EXCEPT !.current = link]
           overridden(b) == [device EXCEPT !.override = b]
<1>1. \A content \in {"absent", "partial", "complete"} :
        kept(content) \in Device /\ kept(content).lock = device.lock
  BY Typed DEF Device
<1>2. \A link \in Directories \cup {"none"} :
        linked(link) \in Device /\ linked(link).lock = device.lock
  BY Typed DEF Device
<1>3. \A b \in BOOLEAN : overridden(b) \in Device /\ overridden(b).lock = device.lock
  BY Typed DEF Device
<1>4. Reload(device) \in Device /\ Reload(device).lock = device.lock
  BY Typed, ServiceTypes
<1>5. BackUp(c) => Done(c, "backUp", "preserve", kept("partial"))
  BY DEF BackUp
<1>6. Preserve(c) => \/ Done(c, "preserve", "linkLegacy", kept("complete"))
                     \/ run[c].pc = "preserve" /\ run' = FailedRun(c) /\ UNCHANGED device
  BY DEF Preserve, Assert
<1>7. /\ LinkLegacy(c) => Done(c, "linkLegacy", "override", linked("legacy"))
      /\ RemoveLegacyLink(c) => Done(c, "removeLegacyLink", "cleanUp", linked("none"))
  BY DEF LinkLegacy, RemoveLegacyLink
<1>8. /\ Override(c) => Done(c, "override", "reload", overridden(TRUE))
      /\ RemoveOverride(c) => Done(c, "removeOverride", "reloadOriginal", overridden(FALSE))
  BY DEF Override, RemoveOverride
<1> HIDE DEF kept, linked, overridden
<1>9. CASE BackUp(c) \/ Preserve(c)
  BY <1>1, <1>5, <1>6, <1>9, DoneKeeps, FailedKeeps, TaskNames, Typed
<1>10. CASE LinkLegacy(c) \/ RemoveLegacyLink(c)
  BY <1>2, <1>7, <1>10, DoneKeeps, TaskNames, Typed
<1>11. CASE Override(c) \/ RemoveOverride(c)
  BY <1>3, <1>8, <1>11, DoneKeeps, TaskNames
<1>12. CASE ReloadOriginal(c)
  BY <1>4, <1>12, DoneKeeps, TaskNames DEF ReloadOriginal
<1>13. CASE ReloadMigrated(c)
  <2> DEFINE r == [run[c] EXCEPT !.pc = "linkNext", !.previous = "legacy"]
  <2>1. run' = [run EXCEPT ![c] = r] /\ device' = Reload(device) /\ Holding(c)
    BY <1>13 DEF ReloadMigrated, Exclusive, Types, Holding
  <2>2. r \in Run /\ r.pc \notin {"idle", "lock"}
    <3>1. r \in Run
      BY RunTypes, Typed, TaskNames
    <3>2. r.pc \notin {"idle", "lock"}
      BY Typed, TaskNames DEF Run
    <3> QED
      BY <3>1, <3>2
  <2> HIDE DEF r
  <2> QED
    BY <1>4, <2>1, <2>2, HolderKeeps
<1> QED
  BY <1>9, <1>10, <1>11, <1>12, <1>13 DEF Migrate

\* A run whose tasks have done what they do.
LEMMA FinishedKeeps ==
    ASSUME Exclusive, NEW c \in Controllers, NEW from \in Tasks,
           NEW outcome \in {"none", "succeeded", "failed", "unrecovered"},
           Finished(c, from, outcome)
    PROVE  Exclusive'
<1> DEFINE r == [run[c] EXCEPT !.pc = "cleanUp", !.outcome = outcome]
<1>1. run' = [run EXCEPT ![c] = r] /\ device' = device /\ Holding(c)
  BY TaskNames DEF Finished, Exclusive, Types, Holding
<1>2. "cleanUp" \in Steps
  BY TaskNames
<1>3. r \in Run /\ r.pc \notin {"idle", "lock"}
  BY <1>2, Typed DEF Run
<1> HIDE DEF r
<1> QED
  BY <1>1, <1>3, HolderKeeps, Typed

\* activate.yaml
LEMMA ActivateKeeps ==
    ASSUME Exclusive, NEW c \in Controllers, Activate(c)
    PROVE  Exclusive'
<1> DEFINE next(link) == [device EXCEPT !.next = link]
           switched == [device EXCEPT !.current = device.next, !.next = "none"]
           dropped == [device EXCEPT !.override = FALSE]
           unlinked == [device EXCEPT !.current = "none"]
           back == IF run[c].action = "migrate" THEN "dropOverride" ELSE "recover"
           after == IF run[c].action = "migrate" THEN "dropLink" ELSE "cleanUp"
<1>1. \A link \in Directories \cup {"none"} :
        next(link) \in Device /\ next(link).lock = device.lock
  BY Typed DEF Device
<1>2. /\ switched \in Device /\ switched.lock = device.lock
      /\ dropped \in Device /\ dropped.lock = device.lock
      /\ unlinked \in Device /\ unlinked.lock = device.lock
  BY Typed DEF Device
<1>3. /\ Restart(device) \in Device /\ Restart(device).lock = device.lock
      /\ Restart(Reload(device)) \in Device /\ Restart(Reload(device)).lock = device.lock
  BY Typed, ServiceTypes
<1>4. back \in Tasks /\ after \in Tasks
  BY TaskNames
<1>5. /\ LinkNext(c) => Done(c, "linkNext", "switch", next(run[c].version))
      /\ LinkPrevious(c) => Done(c, "linkPrevious", "switchBack", next(run[c].previous))
  BY DEF LinkNext, LinkPrevious
<1>6. /\ Switch(c) => Done(c, "switch", "restart", switched)
      /\ SwitchBack(c) => Done(c, "switchBack", back, switched)
      /\ DropOverride(c) => Done(c, "dropOverride", "recover", dropped)
      /\ DropLink(c) => Done(c, "dropLink", "cleanUp", unlinked)
  BY DEF Switch, SwitchBack, DropOverride, DropLink
<1>7. /\ Probe(c) => \/ Finished(c, "probe", "succeeded")
                     \/ run[c].pc = "probe" /\ run' = FailedRun(c) /\ UNCHANGED device
      /\ ProbePrevious(c) =>
           \/ Done(c, "probePrevious", after, device)
           \/ run[c].pc = "probePrevious" /\ run' = FailedRun(c) /\ UNCHANGED device
  BY DEF Probe, ProbePrevious, Assert
<1> HIDE DEF next, switched, dropped, unlinked, back, after
<1>8. CASE LinkNext(c) \/ LinkPrevious(c)
  BY <1>1, <1>5, <1>8, DoneKeeps, TaskNames, Typed
<1>9. CASE Switch(c) \/ SwitchBack(c)
  BY <1>2, <1>4, <1>6, <1>9, DoneKeeps, TaskNames
<1>10. CASE DropOverride(c) \/ DropLink(c)
  BY <1>2, <1>6, <1>10, DoneKeeps, TaskNames
<1>11. CASE RestartService(c) \/ Recover(c)
  BY <1>3, <1>11, DoneKeeps, TaskNames DEF RestartService, Recover
<1>12. CASE Probe(c)
  BY <1>7, <1>12, FinishedKeeps, FailedKeeps, TaskNames, Typed
<1>13. CASE ProbePrevious(c)
  BY <1>4, <1>7, <1>13, DoneKeeps, FailedKeeps, TaskNames, Typed
<1> QED
  BY <1>8, <1>9, <1>10, <1>11, <1>12, <1>13 DEF Activate

\* install.yaml
LEMMA InstallKeeps ==
    ASSUME Exclusive, NEW c \in Controllers, Install(c)
    PROVE  Exclusive'
<1> DEFINE configured(b) == [device EXCEPT !.environment = b]
           linked == [device EXCEPT !.current = run[c].version]
           made == [device EXCEPT !.unit = "release"]
           removed == [device EXCEPT !.unit = "none", !.current = "none"]
           stopped == IF run[c].unitMade THEN Stop(Reload(device)) ELSE device
           found == device.environment /\ run[c].foundEnvironment
<1>1. \A b \in BOOLEAN : configured(b) \in Device /\ configured(b).lock = device.lock
  BY Typed DEF Device
<1>2. /\ linked \in Device /\ linked.lock = device.lock
      /\ made \in Device /\ made.lock = device.lock
      /\ removed \in Device /\ removed.lock = device.lock
  BY Typed DEF Device
<1>3. /\ Reload(device) \in Device /\ Reload(device).lock = device.lock
      /\ Restart(Reload(device)) \in Device /\ Restart(Reload(device)).lock = device.lock
      /\ stopped \in Device /\ stopped.lock = device.lock
  BY Typed, ServiceTypes
<1>4. found \in BOOLEAN
  OBVIOUS
<1>5. /\ CreateEnvironment(c) => Done(c, "environment", "link", configured(TRUE))
      /\ RemoveEnvironment(c) =>
           Done(c, "removeEnvironment", "reloadWithout", configured(found))
  BY Typed DEF CreateEnvironment, RemoveEnvironment, Device
<1>6. /\ Link(c) => Done(c, "link", "unit", linked)
      /\ RemoveUnit(c) => Done(c, "removeUnit", "removeEnvironment", removed)
      /\ StopService(c) => Done(c, "stop", "removeUnit", stopped)
  BY DEF Link, RemoveUnit, StopService
<1>7. FirstProbe(c) =>
        \/ Finished(c, "firstProbe", "succeeded")
        \/ run[c].pc = "firstProbe" /\ run' = FailedRun(c) /\ UNCHANGED device
  BY DEF FirstProbe
<1>8. CASE Inspect(c)
  <2> DEFINE r == [run[c] EXCEPT !.pc = "environment", !.foundEnvironment = device.environment]
  <2>1. \/ run' = [run EXCEPT ![c] = r]
        \/ run' = FailedRun(c)
    BY <1>8 DEF Inspect, Exclusive, Types
  <2>2. run[c].pc \in Tasks /\ Holding(c) /\ device' = device
    BY <1>8, TaskNames DEF Inspect, Holding
  <2>3. "environment" \in Steps /\ device.environment \in BOOLEAN
    BY Typed, TaskNames DEF Device
  <2>4. r \in Run /\ r.pc \notin {"idle", "lock"}
    BY <2>3, Typed DEF Run
  <2> HIDE DEF r
  <2> QED
    BY <2>1, <2>2, <2>4, HolderKeeps, FailedKeeps, Typed
<1>9. CASE InstallUnit(c)
  <2> DEFINE b == device.unit # "release"
             r == [run[c] EXCEPT !.pc = "start", !.unitMade = b]
  <2>1. run' = [run EXCEPT ![c] = r] /\ Holding(c) /\ device' = made
    BY <1>9 DEF InstallUnit, Exclusive, Types, Holding
  <2>2. r \in Run /\ r.pc \notin {"idle", "lock"}
    <3>1. r \in Run
      BY RunTypes, Typed, TaskNames
    <3>2. r.pc \notin {"idle", "lock"}
      BY Typed, TaskNames DEF Run
    <3> QED
      BY <3>1, <3>2
  <2> HIDE DEF r, made
  <2> QED
    BY <1>2, <2>1, <2>2, HolderKeeps
<1> HIDE DEF configured, linked, made, removed, stopped, found
<1>10. CASE CreateEnvironment(c) \/ RemoveEnvironment(c)
  BY <1>1, <1>4, <1>5, <1>10, DoneKeeps, TaskNames
<1>11. CASE Link(c) \/ RemoveUnit(c) \/ StopService(c)
  BY <1>2, <1>3, <1>6, <1>11, DoneKeeps, TaskNames
<1>12. CASE StartService(c) \/ ReloadWithout(c)
  BY <1>3, <1>12, DoneKeeps, TaskNames DEF StartService, ReloadWithout
<1>13. CASE FirstProbe(c)
  BY <1>7, <1>13, FinishedKeeps, FailedKeeps, TaskNames, Typed
<1> QED
  BY <1>8, <1>9, <1>10, <1>11, <1>12, <1>13 DEF Install

-----------------------------------------------------------------------------
(* The lock, and what goes wrong.                                          *)

\* A run takes the lock only where there is none, then no other run works.
LEMMA AcquireKeeps ==
    ASSUME Exclusive, NEW c \in Controllers, Acquire(c)
    PROVE  Exclusive'
<1>1. CASE device.lock
  <2>1. run' = [run EXCEPT ![c] = Idle] /\ device' = device
    BY <1>1 DEF Acquire
  <2>2. Idle \in Run /\ Idle.pc = "idle"
    BY BareIsDevice DEF Idle, Run, Steps
  <2>3. \A o \in Controllers : Holding(o)' => Holding(o)
    BY <2>1, <2>2 DEF Exclusive, Types, Holding
  <2> QED
    BY <2>1, <2>2, <2>3 DEF Exclusive, Types, OneDeployment
<1>2. CASE ~device.lock
  <2> DEFINE r == [run[c] EXCEPT !.pc = "read", !.before = device]
  <2>1. run' = [run EXCEPT ![c] = r] /\ device' = [device EXCEPT !.lock = TRUE]
    BY <1>2 DEF Acquire, Exclusive, Types
  <2>2. r \in Run
    BY RunTypes, Typed, TaskNames
  <2>3. device' \in Device /\ device'.lock
    BY <2>1, Typed DEF Device
  <2>4. \A o \in Controllers : ~Holding(o)
    BY <1>2 DEF Exclusive, OneDeployment
  <2> HIDE DEF r
  <2>5. \A o \in Controllers : Holding(o)' => o = c
    BY <2>1, <2>4 DEF Exclusive, Types, Holding
  <2> QED
    BY <2>1, <2>2, <2>3, <2>5 DEF Exclusive, Types, OneDeployment
<1> QED
  BY <1>1, <1>2

\* The lock is given back by the run that has it, or for one that is stuck with it.
LEMMA ReleaseKeeps ==
    ASSUME Exclusive, NEW c \in Controllers, Unlock(c) \/ RemoveLock(c)
    PROVE  Exclusive'
<1>1. run' = [run EXCEPT ![c] = Idle] /\ device' = [device EXCEPT !.lock = FALSE]
  BY DEF Unlock, RemoveLock
<1>2. Idle \in Run /\ Idle.pc = "idle"
  BY BareIsDevice DEF Idle, Run, Steps
<1>3. Holding(c)
  BY DEF Unlock, RemoveLock, Holding
<1>4. device' \in Device
  BY <1>1, Typed DEF Device
<1>5. \A o \in Controllers : ~Holding(o)'
  BY <1>1, <1>2, <1>3 DEF Exclusive, Types, OneDeployment, Holding
<1> QED
  BY <1>1, <1>2, <1>4, <1>5 DEF Exclusive, Types, OneDeployment

\* A new run has nothing yet.
LEMMA StartKeeps ==
    ASSUME Exclusive, NEW c \in Controllers, StartRun(c)
    PROVE  Exclusive'
<1>1. PICK a \in {"deploy", "migrate", "rollback"}, v \in Versions :
        run' = [run EXCEPT ![c] = [Idle EXCEPT !.pc = "lock", !.action = a, !.version = v]]
  BY DEF StartRun
<1> DEFINE r == [Idle EXCEPT !.pc = "lock", !.action = a, !.version = v]
<1>2. r \in Run /\ r.pc = "lock"
  BY BareIsDevice DEF Idle, Run, Steps
<1>3. run' = [run EXCEPT ![c] = r] /\ device' = device
  BY <1>1 DEF StartRun
<1> HIDE DEF r
<1>4. \A o \in Controllers : Holding(o)' => Holding(o)
  BY <1>2, <1>3 DEF Exclusive, Types, Holding
<1> QED
  BY <1>2, <1>3, <1>4 DEF Exclusive, Types, OneDeployment

\* A task that fails half done.
LEMMA FailKeeps ==
    ASSUME Exclusive, NEW c \in Controllers, Fail(c)
    PROVE  Exclusive'
<1> DEFINE unlinked == [device EXCEPT !.current = "none"]
           removed == [device EXCEPT !.unit = "none"]
<1>1. /\ unlinked \in Device /\ unlinked.lock = device.lock
      /\ removed \in Device /\ removed.lock = device.lock
  BY Typed DEF Device
<1>2. device' \in {device, Stop(device), Restart(device), Reload(device),
                   Stop(Reload(device)), Restart(Reload(device)), unlinked, removed}
  BY DEF Fail, Halfway
<1> HIDE DEF unlinked, removed
<1>3. device' \in Device /\ device'.lock = device.lock
  BY <1>1, <1>2, Typed, ServiceTypes
<1> QED
  BY <1>3, FailedKeeps DEF Fail

\* A controller that is cut off keeps the lock.
LEMMA CutKeeps ==
    ASSUME Exclusive, NEW c \in Controllers, Cut(c)
    PROVE  Exclusive'
<1> DEFINE r == [run[c] EXCEPT !.pc = "cut"]
<1>1. run' = [run EXCEPT ![c] = r] /\ device' = device /\ Holding(c)
  BY TaskNames DEF Cut, Exclusive, Types, Holding
<1>2. r \in Run /\ r.pc \notin {"idle", "lock"}
  BY Typed DEF Run, Steps
<1> HIDE DEF r
<1> QED
  BY <1>1, <1>2, HolderKeeps, Typed

-----------------------------------------------------------------------------

\* At the start nobody works on the device.
LEMMA ExclusiveInit ==
    ASSUME Init
    PROVE  Exclusive
<1>1. Idle \in Run /\ Idle.pc = "idle"
  BY BareIsDevice DEF Idle, Run, Steps
<1>2. device \in Device
  <2>1. CASE device \in {Bare, [Bare EXCEPT !.environment = TRUE],
           [Bare EXCEPT !.unit = "source", !.loaded = "source", !.running = "source"]}
    <3>1. [Bare EXCEPT !.environment = TRUE] \in Device
      BY BareIsDevice DEF Device
    <3>2. [Bare EXCEPT !.unit = "source", !.loaded = "source", !.running = "source"]
            \in Device
      BY BareIsDevice DEF Device
    <3> QED
      BY <2>1, <3>1, <3>2, BareIsDevice
  <2>2. ASSUME NEW v \in Versions \ Broken,
               device = [Bare EXCEPT !.releases[v] = "complete", !.current = v,
                                     !.unit = "release", !.environment = TRUE,
                                     !.loaded = "release", !.running = v]
        PROVE  device \in Device
    BY <2>2, BareIsDevice DEF Device, Directories
  <2> QED
    BY <2>1, <2>2 DEF Init, Devices
<1> QED
  BY <1>1, <1>2 DEF Init, Exclusive, Types, OneDeployment, Holding

\* The invariant is kept by every step.
LEMMA ExclusiveStep ==
    ASSUME Exclusive, [Next]_vars
    PROVE  Exclusive'
<1>1. ASSUME NEW c \in Controllers, Perform(c)
      PROVE  Exclusive'
  BY <1>1, AcquireKeeps, ReadingKeeps, StagingKeeps, MigrateKeeps, ActivateKeeps,
     InstallKeeps, ReleaseKeeps DEF Perform
<1>2. ASSUME NEW c \in Controllers, StartRun(c) \/ Fail(c) \/ Cut(c) \/ RemoveLock(c)
      PROVE  Exclusive'
  BY <1>2, StartKeeps, FailKeeps, CutKeeps, ReleaseKeeps
<1>3. CASE Respawn
  <2>1. device' \in Device /\ device'.lock = device.lock
    BY <1>3, ServiceTypes DEF Respawn, Exclusive, Types
  <2> QED
    BY <1>3, <2>1 DEF Respawn, Exclusive, Types, OneDeployment, Holding
<1>4. CASE UNCHANGED vars
  BY <1>4 DEF vars, Exclusive, Types, OneDeployment, Holding
<1> QED
  BY <1>1, <1>2, <1>3, <1>4 DEF Next

\* No two runs work on the device at a time, and the one that does has the lock
\* (main.yaml:29-32, main.yaml:121-124).
THEOREM DeploymentsExclude == Spec => []OneDeployment
<1>1. Init => Exclusive
  BY ExclusiveInit
<1>2. Exclusive /\ [Next]_vars => Exclusive'
  BY ExclusiveStep
<1>3. Exclusive => OneDeployment
  BY DEF Exclusive
<1> QED
  BY <1>1, <1>2, <1>3, PTL DEF Spec

BoundsInv == started \in 0..MaxRuns /\ faults \in 0..MaxFaults /\ cuts \in 0..MaxCuts

\* The tasks that do their work leave the counts alone.
LEMMA PerformBounds ==
    ASSUME NEW c \in Controllers, Perform(c)
    PROVE  UNCHANGED bounds
BY DEF Perform, Acquire, ReadState, Stage, Extract, Publish, Verify, Migrate, BackUp, Preserve,
       LinkLegacy, Override, ReloadMigrated, RemoveOverride, ReloadOriginal, RemoveLegacyLink,
       Activate, LinkNext, Switch, RestartService, Probe, LinkPrevious, SwitchBack,
       DropOverride, Recover, ProbePrevious, DropLink, Install, Inspect, CreateEnvironment,
       Link, InstallUnit, StartService, FirstProbe, StopService, RemoveUnit,
       RemoveEnvironment, ReloadWithout, CleanUp, Unlock, Done, Assert, Finished

\* Device, runs and counts keep their types, whatever fails and whoever is cut off.
THEOREM DeploymentTypes == Spec => []TypeOK
<1>1. Init => BoundsInv
  BY DeploymentAssumption DEF Init, BoundsInv
<1>2. BoundsInv /\ [Next]_vars => BoundsInv'
  <2> SUFFICES ASSUME BoundsInv, [Next]_vars PROVE BoundsInv'
    OBVIOUS
  <2>1. ASSUME NEW c \in Controllers, Perform(c) PROVE BoundsInv'
    BY <2>1, PerformBounds DEF bounds, BoundsInv
  <2>2. ASSUME NEW c \in Controllers, StartRun(c) \/ Fail(c) \/ Cut(c) \/ RemoveLock(c)
        PROVE  BoundsInv'
    <3>1. MaxRuns \in Nat /\ MaxFaults \in Nat /\ MaxCuts \in Nat
      BY DeploymentAssumption
    <3>2. CASE StartRun(c)
      <4>1. started < MaxRuns /\ started' = started + 1 /\ faults' = faults /\ cuts' = cuts
        BY <3>2 DEF StartRun
      <4> QED
        BY <3>1, <4>1 DEF BoundsInv
    <3>3. CASE Fail(c)
      <4>1. faults < MaxFaults /\ faults' = faults + 1 /\ started' = started /\ cuts' = cuts
        BY <3>3 DEF Fail
      <4> QED
        BY <3>1, <4>1 DEF BoundsInv
    <3>4. CASE Cut(c)
      <4>1. cuts < MaxCuts /\ cuts' = cuts + 1 /\ started' = started /\ faults' = faults
        BY <3>4 DEF Cut
      <4> QED
        BY <3>1, <4>1 DEF BoundsInv
    <3>5. CASE RemoveLock(c)
      BY <3>5 DEF RemoveLock, bounds, BoundsInv
    <3> QED
      BY <2>2, <3>2, <3>3, <3>4, <3>5
  <2>3. CASE Respawn \/ UNCHANGED vars
    BY <2>3 DEF Respawn, vars, bounds, BoundsInv
  <2> QED
    BY <2>1, <2>2, <2>3 DEF Next
<1>3. Exclusive /\ BoundsInv => TypeOK
  BY DEF Exclusive, Types, Run, Steps, BoundsInv, TypeOK
<1> QED
  BY <1>1, <1>2, <1>3, ExclusiveInit, ExclusiveStep, PTL DEF Spec

-----------------------------------------------------------------------------
(* The links.                                                              *)

\* A release, or the preserved program, that is there completely.
Linked(d, v) == v \in Directories /\ d.releases[v] = "complete"

LinksInv(d) ==
    /\ \A v \in {d.current, d.next} \ {"none"} : d.releases[v] = "complete"
    /\ d.current = "none" => d.next # "legacy"

Prepares == {"stage", "extract", "publish", "verify"}
Preserves == {"backUp", "preserve"}

\* What the steps to come need: where they start from, what they will link, where a
\* rescue goes back to; the copy of the original program is made while nothing links it.
RunInv(d, r) ==
    /\ r.pc # "idle" => r.version \in Versions
    /\ r.pc \in Prepares =>
         IF r.fresh \/ r.action = "migrate" THEN d.current = "none"
         ELSE d.current # "none" /\ Linked(d, r.previous)
    /\ r.pc \in Preserves => d.current = "none"
    /\ r.pc \in Migrating => Linked(d, "legacy")
    /\ r.pc \in {"override", "reload"} => d.current # "none"
    /\ r.pc \in Preserves \cup Migrating \cup Activating \cup Installing \cup {"inspect"} =>
         Linked(d, r.version)
    /\ r.pc \in Activating \cup {"linkPrevious"} => d.current # "none" /\ Linked(d, r.previous)
    /\ r.pc = "switch" => d.next # "none"
    /\ r.pc \in Installing \cup UndoInstalling \cup Migrating \cup UndoMigrating
            \cup {"inspect", "dropOverride", "recover", "probePrevious", "dropLink"} =>
         d.next # "legacy"

LinksSafe == LinksInv(device) /\ \A c \in Controllers : RunInv(device, run[c])

\* What the links and the releases are.
SameLinks(d) ==
    d.current = device.current /\ d.next = device.next /\ d.releases = device.releases

\* The invariants look at links and releases only.
LEMMA SameKeeps ==
    ASSUME NEW d, SameLinks(d), NEW r
    PROVE  (LinksInv(device) => LinksInv(d)) /\ (RunInv(device, r) => RunInv(d, r))
BY DEF SameLinks, LinksInv, RunInv, Linked

\* What a run needs to know where it is.
LEMMA LinksTyped ==
    ASSUME Exclusive, LinksSafe, NEW c \in Controllers
    PROVE  /\ LinksInv(device) /\ RunInv(device, run[c])
           /\ device \in Device /\ run[c] \in Run
           /\ "legacy" \notin Versions /\ "none" \notin Directories
           /\ Directories = Versions \cup {"legacy"}
BY DeploymentAssumption, Typed DEF LinksSafe, Directories

\* A step of the run that holds the lock leaves the others where they need nothing.
LEMMA HolderLinks ==
    ASSUME Exclusive, LinksSafe, NEW c \in Controllers, Holding(c), NEW r \in Run,
           run' = [run EXCEPT ![c] = r], LinksInv(device'), RunInv(device', r)
    PROVE  LinksSafe'
<1>1. ASSUME NEW o \in Controllers, o # c
      PROVE  RunInv(device', run'[o])
  <2>1. run[o].pc \in {"idle", "lock"}
    BY <1>1 DEF Exclusive, OneDeployment, Holding
  <2>2. run'[o] = run[o]
    BY <1>1 DEF Exclusive, Types
  <2>3. run[o].pc # "idle" => run[o].version \in Versions
    BY DEF LinksSafe, RunInv
  <2> QED
    BY <2>1, <2>2, <2>3
    DEF RunInv, Prepares, Preserves, Migrating, Activating, Installing, UndoInstalling,
        UndoMigrating
<1>2. run'[c] = r
  BY DEF Exclusive, Types
<1> QED
  BY <1>1, <1>2 DEF LinksSafe

\* A task that succeeds.
LEMMA DoneLinks ==
    ASSUME Exclusive, LinksSafe, NEW c \in Controllers, NEW from \in Tasks, NEW to \in Tasks,
           NEW d, Done(c, from, to, d), LinksInv(d), RunInv(d, [run[c] EXCEPT !.pc = to])
    PROVE  LinksSafe'
<1> DEFINE r == [run[c] EXCEPT !.pc = to]
<1>1. run' = [run EXCEPT ![c] = r] /\ device' = d /\ run[c].pc = from
  BY DEF Done, Exclusive, Types
<1>2. r \in Run
  BY TaskNames, Typed DEF Run
<1>3. Holding(c)
  BY <1>1, TaskNames DEF Holding
<1> HIDE DEF r
<1> QED
  BY <1>1, <1>2, <1>3, HolderLinks DEF r

\* A task that succeeds and has nothing to do with the links.
LEMMA DoneBeside ==
    ASSUME Exclusive, LinksSafe, NEW c \in Controllers, NEW from \in Tasks, NEW to \in Tasks,
           NEW d, SameLinks(d), Done(c, from, to, d),
           RunInv(device, [run[c] EXCEPT !.pc = to])
    PROVE  LinksSafe'
<1>1. LinksInv(d) /\ RunInv(d, [run[c] EXCEPT !.pc = to])
  BY SameKeeps, LinksTyped
<1> QED
  BY <1>1, DoneLinks

\* A task that fails: its rescue finds what it needs.
LEMMA FailedLinks ==
    ASSUME Exclusive, LinksSafe, NEW c \in Controllers, run[c].pc \in Tasks,
           SameLinks(device'), run' = FailedRun(c)
    PROVE  LinksSafe'
<1> DEFINE to == OnFailure(run[c].pc)
           r == [run[c] EXCEPT !.pc = to, !.outcome = OutcomeOf(run[c])]
<1>1. run' = [run EXCEPT ![c] = r]
  BY DEF FailedRun, Exclusive, Types
<1>2. /\ run[c].pc \in Migrating => to = "removeOverride"
      /\ run[c].pc \in Activating => to = "linkPrevious"
      /\ run[c].pc \in Installing => to = "stop"
      /\ run[c].pc \notin Migrating \cup Activating \cup Installing =>
           to \in {"cleanUp", "stuck"}
  BY TaskNames
  DEF OnFailure, Tasks, Migrating, Activating, Installing, Preparing, Rescuing, Cleaning,
      UndoMigrating, UndoActivating, UndoInstalling
<1>3. OutcomeOf(run[c]) \in {"none", "succeeded", "failed", "unrecovered"}
  BY Typed DEF OutcomeOf, Run
<1>4. Holding(c)
  BY TaskNames DEF Holding
<1>5. run[c].pc # "idle"
  BY TaskNames
<1> HIDE DEF to
<1>6. to \in {"removeOverride", "linkPrevious", "stop", "cleanUp", "stuck"}
  BY <1>2
<1>7. r \in Run
  <2>1. to \in Steps
    BY <1>6, TaskNames DEF Steps
  <2> QED
    BY <1>3, <2>1, Typed DEF Run
<1>8. r.pc = to /\ r.version = run[c].version /\ r.previous = run[c].previous
  BY Typed DEF Run
<1> HIDE DEF r
<1>9. RunInv(device, r)
  BY <1>2, <1>5, <1>6, <1>8, LinksTyped
  DEF RunInv, Prepares, Preserves, Migrating, Activating, Installing, UndoInstalling,
      UndoMigrating
<1> QED
  BY <1>1, <1>4, <1>7, <1>9, SameKeeps, LinksTyped, HolderLinks

\* What systemd does has nothing to do with the links.
LEMMA ServiceBeside ==
    ASSUME Exclusive
    PROVE  /\ SameLinks(device) /\ SameLinks(Reload(device)) /\ SameLinks(Stop(device))
           /\ SameLinks(Restart(device)) /\ SameLinks(Stop(Reload(device)))
           /\ SameLinks(Restart(Reload(device)))
BY DEF SameLinks, Reload, Stop, Restart, Exclusive, Types, Device

\* main.yaml
LEMMA ReadingLinks ==
    ASSUME Exclusive, LinksSafe, NEW c \in Controllers, ReadState(c) \/ Verify(c)
    PROVE  LinksSafe'
<1> USE DEF RunInv, Linked, Prepares, Preserves, Migrating, Activating, Installing,
            UndoInstalling, UndoMigrating
<1>1. CASE ReadState(c)
  <2>1. PICK view \in Views :
          LET fresh == run[c].action = "deploy" /\ view.loaded = "none" IN
          /\ device' = view
          /\ IF Valid(run[c].action, fresh, view)
               THEN run' = [run EXCEPT ![c].pc = IF run[c].action = "rollback"
                                                   THEN "verify" ELSE "stage",
                                       ![c].fresh = fresh, ![c].previous = view.current]
               ELSE run' = FailedRun(c)
    BY <1>1 DEF ReadState
  <2>2. SameLinks(view) /\ view \in Device
    BY ServiceBeside, ServiceTypes, Typed DEF Views
  <2>3. run[c].pc = "read" /\ run[c].pc \in Tasks /\ Holding(c)
    BY <1>1, TaskNames DEF ReadState, Holding
  <2>4. CASE run' = FailedRun(c)
    BY <2>1, <2>2, <2>3, <2>4, FailedLinks
  <2>5. CASE run' # FailedRun(c)
    <3> DEFINE fresh == run[c].action = "deploy" /\ view.loaded = "none"
               to == IF run[c].action = "rollback" THEN "verify" ELSE "stage"
               r == [run[c] EXCEPT !.pc = to, !.fresh = fresh, !.previous = view.current]
    <3>1. run' = [run EXCEPT ![c] = r] /\ Valid(run[c].action, fresh, view)
      BY <2>1, <2>5 DEF Exclusive, Types
    <3>2. to \in Steps /\ view.current \in Directories \cup {"none"} /\ fresh \in BOOLEAN
      BY <2>2, TaskNames DEF Device
    <3>3. r \in Run
      BY <3>2, RunTypes, Typed
    <3>4. /\ r.pc \in {"verify", "stage"} /\ r.version = run[c].version
          /\ r.action = run[c].action /\ r.fresh = fresh /\ r.previous = view.current
      BY Typed DEF Run
    <3>5. IF fresh \/ run[c].action = "migrate" THEN view.current = "none"
          ELSE view.current # "none"
      BY <3>1 DEF Valid
    <3>6. view.current # "none" => Linked(view, view.current)
      BY <2>2, <3>2, LinksTyped DEF SameLinks, LinksInv
    <3>7. run[c].version \in Versions
      BY <2>3, LinksTyped
    <3> HIDE DEF r, fresh
    <3>8. RunInv(view, r)
      BY <3>4, <3>5, <3>6, <3>7
    <3>9. LinksInv(view)
      BY <2>2, SameKeeps, LinksTyped
    <3> QED
      BY <2>1, <2>3, <3>1, <3>3, <3>8, <3>9, HolderLinks
  <2> QED
    BY <2>4, <2>5
<1>2. CASE Verify(c)
  <2> DEFINE to == CASE run[c].action = "migrate" -> "backUp"
                     [] run[c].fresh -> "inspect"
                     [] OTHER -> IF run[c].previous = run[c].version
                                   THEN "probe" ELSE "linkNext"
  <2>1. \/ /\ Done(c, "verify", to, device)
           /\ device.releases[run[c].version] = "complete"
        \/ run[c].pc = "verify" /\ run' = FailedRun(c) /\ UNCHANGED device
    BY <1>2 DEF Verify, Assert
  <2>2. CASE /\ Done(c, "verify", to, device)
             /\ device.releases[run[c].version] = "complete"
    <3>1. run[c].pc = "verify"
      BY <2>2 DEF Done
    <3>2. Linked(device, run[c].version)
      BY <2>2, <3>1, LinksTyped
    <3>3. IF run[c].fresh \/ run[c].action = "migrate"
            THEN device.current = "none" /\ device.next # "legacy"
            ELSE device.current # "none" /\ Linked(device, run[c].previous)
      BY <3>1, LinksTyped DEF LinksInv
    <3>4. to \in {"backUp", "inspect", "probe", "linkNext"}
      OBVIOUS
    <3>5. to \in {"backUp", "inspect"} <=> run[c].fresh \/ run[c].action = "migrate"
      BY Typed DEF Run
    <3> HIDE DEF to
    <3>6. RunInv(device, [run[c] EXCEPT !.pc = to])
      BY <3>1, <3>2, <3>3, <3>4, <3>5, LinksTyped DEF Run
    <3>7. to \in Tasks
      BY <3>4, TaskNames
    <3> QED
      BY <2>2, <3>6, <3>7, DoneBeside, ServiceBeside, TaskNames
  <2>3. CASE run[c].pc = "verify" /\ run' = FailedRun(c) /\ UNCHANGED device
    BY <2>3, FailedLinks, ServiceBeside, TaskNames
  <2> QED
    BY <2>1, <2>2, <2>3
<1> QED
  BY <1>1, <1>2

\* stage.yaml
LEMMA StagingLinks ==
    ASSUME Exclusive, LinksSafe, NEW c \in Controllers,
           Stage(c) \/ Extract(c) \/ Publish(c) \/ CleanUp(c)
    PROVE  LinksSafe'
<1> DEFINE at(to) == [run[c] EXCEPT !.pc = to]
           staged(content) == [device EXCEPT !.staging[c] = content]
<1>1. \A content : SameLinks(staged(content))
  BY Typed DEF SameLinks, Device
<1>2. /\ run[c].pc = "stage" => RunInv(device, at("extract"))
      /\ run[c].pc = "extract" => RunInv(device, at("publish"))
      /\ run[c].pc = "publish" => RunInv(device, at("verify"))
      /\ run[c].pc = "cleanUp" => RunInv(device, at("unlock"))
  BY LinksTyped
  DEF RunInv, Prepares, Preserves, Migrating, Activating, Installing, UndoInstalling,
      UndoMigrating, Run
<1>3. CASE Stage(c)
  <2>1. Done(c, "stage", "extract", staged("partial"))
    BY <1>3 DEF Stage
  <2>2. run[c].pc = "stage"
    BY <2>1 DEF Done
  <2> HIDE DEF staged
  <2> QED
    BY <1>1, <1>2, <2>1, <2>2, DoneBeside, TaskNames
<1>4. CASE Extract(c)
  <2>1. Done(c, "extract", "publish", staged("complete"))
    BY <1>4 DEF Extract
  <2>2. run[c].pc = "extract"
    BY <2>1 DEF Done
  <2> HIDE DEF staged
  <2> QED
    BY <1>1, <1>2, <2>1, <2>2, DoneBeside, TaskNames
<1>5. CASE CleanUp(c)
  <2>1. Done(c, "cleanUp", "unlock", staged("absent"))
    BY <1>5 DEF CleanUp
  <2>2. run[c].pc = "cleanUp"
    BY <2>1 DEF Done
  <2> HIDE DEF staged
  <2> QED
    BY <1>1, <1>2, <2>1, <2>2, DoneBeside, TaskNames
<1>6. CASE Publish(c)
  <2> DEFINE v == run[c].version
             d == [device EXCEPT !.releases[v] = device.staging[c], !.staging[c] = "absent"]
  <2>1. run[c].pc = "publish"
    BY <1>6 DEF Publish, Done, Assert
  <2>2. CASE device.releases[v] = "absent"
    <3>1. Done(c, "publish", "verify", d)
      BY <1>6, <2>1, <2>2 DEF Publish
    <3>2. /\ d.current = device.current /\ d.next = device.next
          /\ \A o \in Directories : device.releases[o] = "complete" =>
                                      d.releases[o] = "complete"
      BY <2>2, Typed DEF Device
    <3>3. device.current \in Directories \cup {"none"} /\ device.next \in Directories \cup {"none"}
      BY Typed
    <3> HIDE DEF d
    <3>4. LinksInv(d)
      BY <3>2, <3>3, LinksTyped DEF LinksInv
    <3>5. RunInv(d, at("verify"))
      BY <1>2, <2>1, <3>2
      DEF RunInv, Linked, Prepares, Preserves, Migrating, Activating, Installing,
          UndoInstalling, UndoMigrating, Run
    <3> QED
      BY <3>1, <3>4, <3>5, DoneLinks, TaskNames
  <2>3. CASE device.releases[v] # "absent"
    <3>1. \/ Done(c, "publish", "verify", device)
          \/ run' = FailedRun(c) /\ UNCHANGED device
      BY <1>6, <2>3 DEF Publish, Assert
    <3> QED
      BY <1>2, <2>1, <3>1, DoneBeside, FailedLinks, ServiceBeside, TaskNames
  <2> QED
    BY <2>2, <2>3
<1> QED
  BY <1>3, <1>4, <1>5, <1>6

\* migrate.yaml
LEMMA MigrateLinks ==
    ASSUME Exclusive, LinksSafe, NEW c \in Controllers, Migrate(c)
    PROVE  LinksSafe'
<1> DEFINE at(to) == [run[c] EXCEPT !.pc = to]
           kept(content) == [device EXCEPT !.releases["legacy"] = content]
           linked(link) == [device EXCEPT !.current = link]
<1> USE DEF RunInv, Prepares, Preserves, Migrating, Activating, Installing, UndoInstalling,
            UndoMigrating, Run
<1>1. CASE BackUp(c)
  <2>1. Done(c, "backUp", "preserve", kept("partial")) /\ run[c].pc = "backUp"
    BY <1>1 DEF BackUp, Done
  <2>2. LinksInv(kept("partial"))
    BY <2>1, LinksTyped DEF LinksInv, Device
  <2>3. RunInv(kept("partial"), at("preserve"))
    BY <2>1, LinksTyped DEF Linked, Device
  <2> HIDE DEF kept, RunInv, Run
  <2> QED
    BY <2>1, <2>2, <2>3, DoneLinks, TaskNames
<1>2. CASE Preserve(c)
  <2>1. run[c].pc = "preserve"
    BY <1>2 DEF Preserve, Assert
  <2>2. CASE Done(c, "preserve", "linkLegacy", kept("complete"))
    <3>1. LinksInv(kept("complete"))
      BY LinksTyped DEF LinksInv, Device
    <3>2. RunInv(kept("complete"), at("linkLegacy"))
      BY <2>1, LinksTyped DEF Linked, Device, LinksInv
    <3> HIDE DEF kept, RunInv, Run
    <3> QED
      BY <2>2, <3>1, <3>2, DoneLinks, TaskNames
  <2>3. CASE run' = FailedRun(c) /\ UNCHANGED device
    BY <2>1, <2>3, FailedLinks, ServiceBeside, TaskNames
  <2> QED
    BY <1>2, <2>2, <2>3 DEF Preserve, Assert
<1>3. CASE LinkLegacy(c)
  <2>1. Done(c, "linkLegacy", "override", linked("legacy")) /\ run[c].pc = "linkLegacy"
    BY <1>3 DEF LinkLegacy, Done
  <2>2. LinksInv(linked("legacy"))
    BY <2>1, LinksTyped DEF LinksInv, Linked, Device
  <2>3. RunInv(linked("legacy"), at("override"))
    BY <2>1, LinksTyped DEF Linked, Device
  <2> HIDE DEF linked, RunInv, Run
  <2> QED
    BY <2>1, <2>2, <2>3, DoneLinks, TaskNames
<1>4. CASE RemoveLegacyLink(c)
  <2>1. Done(c, "removeLegacyLink", "cleanUp", linked("none")) /\ run[c].pc = "removeLegacyLink"
    BY <1>4 DEF RemoveLegacyLink, Done
  <2>2. LinksInv(linked("none"))
    BY <2>1, LinksTyped DEF LinksInv, Device
  <2>3. RunInv(linked("none"), at("cleanUp"))
    BY <2>1, LinksTyped
  <2> HIDE DEF linked, RunInv, Run
  <2> QED
    BY <2>1, <2>2, <2>3, DoneLinks, TaskNames
<1>5. CASE Override(c) \/ RemoveOverride(c)
  <2> DEFINE d(b) == [device EXCEPT !.override = b]
  <2>1. \A b : SameLinks(d(b))
    BY Typed DEF SameLinks, Device
  <2>2. \/ Done(c, "override", "reload", d(TRUE)) /\ run[c].pc = "override"
        \/ Done(c, "removeOverride", "reloadOriginal", d(FALSE)) /\ run[c].pc = "removeOverride"
    BY <1>5 DEF Override, RemoveOverride, Done
  <2>3. /\ run[c].pc = "override" => RunInv(device, at("reload"))
        /\ run[c].pc = "removeOverride" => RunInv(device, at("reloadOriginal"))
    BY LinksTyped
  <2> HIDE DEF d, RunInv, Run
  <2> QED
    BY <2>1, <2>2, <2>3, DoneBeside, TaskNames
<1>6. CASE ReloadOriginal(c)
  <2>1. Done(c, "reloadOriginal", "removeLegacyLink", Reload(device))
    BY <1>6 DEF ReloadOriginal
  <2>2. run[c].pc = "reloadOriginal"
    BY <2>1 DEF Done
  <2>3. RunInv(device, at("removeLegacyLink"))
    BY <2>2, LinksTyped
  <2> QED
    BY <2>1, <2>3, DoneBeside, ServiceBeside, TaskNames
<1>7. CASE ReloadMigrated(c)
  <2> DEFINE r == [run[c] EXCEPT !.pc = "linkNext", !.previous = "legacy"]
  <2>1. run' = [run EXCEPT ![c] = r] /\ device' = Reload(device) /\ Holding(c)
    BY <1>7 DEF ReloadMigrated, Exclusive, Types, Holding
  <2>2. "linkNext" \in Steps
    BY TaskNames
  <2>3. r \in Run
    BY <2>2, Typed
  <2>4. RunInv(device, r)
    BY <1>7, LinksTyped DEF ReloadMigrated
  <2> HIDE DEF r, RunInv, Run
  <2> QED
    BY <2>1, <2>3, <2>4, HolderLinks, SameKeeps, ServiceBeside, LinksTyped
<1> QED
  BY <1>1, <1>2, <1>3, <1>4, <1>5, <1>6, <1>7 DEF Migrate

\* A run whose tasks have done what they do needs nothing any more.
LEMMA FinishedLinks ==
    ASSUME Exclusive, LinksSafe, NEW c \in Controllers, NEW from \in Tasks,
           NEW outcome \in {"none", "succeeded", "failed", "unrecovered"},
           Finished(c, from, outcome)
    PROVE  LinksSafe'
<1> DEFINE r == [run[c] EXCEPT !.pc = "cleanUp", !.outcome = outcome]
<1>1. /\ run' = [run EXCEPT ![c] = r] /\ device' = device /\ Holding(c)
      /\ run[c].pc # "idle"
  BY TaskNames DEF Finished, Exclusive, Types, Holding
<1>2. "cleanUp" \in Steps
  BY TaskNames
<1>3. r \in Run
  BY <1>2, Typed DEF Run
<1>4. RunInv(device, r)
  BY <1>1, LinksTyped
  DEF RunInv, Prepares, Preserves, Migrating, Activating, Installing, UndoInstalling,
      UndoMigrating, Run
<1> HIDE DEF r
<1> QED
  BY <1>1, <1>3, <1>4, HolderLinks, LinksTyped

\* activate.yaml
LEMMA ActivateLinks ==
    ASSUME Exclusive, LinksSafe, NEW c \in Controllers, Activate(c)
    PROVE  LinksSafe'
<1> DEFINE at(to) == [run[c] EXCEPT !.pc = to]
           next(link) == [device EXCEPT !.next = link]
           switched == [device EXCEPT !.current = device.next, !.next = "none"]
<1> USE DEF RunInv, Prepares, Preserves, Migrating, Activating, Installing, UndoInstalling,
            UndoMigrating, Run
<1>1. CASE LinkNext(c)
  <2>1. Done(c, "linkNext", "switch", next(run[c].version)) /\ run[c].pc = "linkNext"
    BY <1>1 DEF LinkNext, Done
  <2>2. LinksInv(next(run[c].version))
    BY <2>1, LinksTyped DEF LinksInv, Linked, Device
  <2>3. RunInv(next(run[c].version), at("switch"))
    BY <2>1, LinksTyped DEF Linked, Device
  <2> HIDE DEF next, RunInv, Run
  <2> QED
    BY <2>1, <2>2, <2>3, DoneLinks, TaskNames
<1>2. CASE LinkPrevious(c)
  <2>1. /\ Done(c, "linkPrevious", "switchBack", next(run[c].previous))
        /\ run[c].pc = "linkPrevious"
    BY <1>2 DEF LinkPrevious, Done
  <2>2. LinksInv(next(run[c].previous))
    BY <2>1, LinksTyped DEF LinksInv, Linked, Device
  <2>3. RunInv(next(run[c].previous), at("switchBack"))
    BY <2>1, LinksTyped
  <2> HIDE DEF next, RunInv, Run
  <2> QED
    BY <2>1, <2>2, <2>3, DoneLinks, TaskNames
<1>3. LinksInv(switched)
  BY LinksTyped DEF LinksInv, Device
<1>4. CASE Switch(c)
  <2>1. Done(c, "switch", "restart", switched) /\ run[c].pc = "switch"
    BY <1>4 DEF Switch, Done
  <2>2. RunInv(switched, at("restart"))
    BY <2>1, LinksTyped DEF Linked, Device
  <2> HIDE DEF switched, RunInv, Run
  <2> QED
    BY <1>3, <2>1, <2>2, DoneLinks, TaskNames
<1>5. CASE SwitchBack(c)
  <2> DEFINE to == IF run[c].action = "migrate" THEN "dropOverride" ELSE "recover"
  <2>1. Done(c, "switchBack", to, switched) /\ run[c].pc = "switchBack"
    BY <1>5 DEF SwitchBack, Done
  <2>2. to \in {"dropOverride", "recover"}
    OBVIOUS
  <2> HIDE DEF to
  <2>3. RunInv(switched, at(to))
    BY <2>1, <2>2, LinksTyped DEF Device
  <2> HIDE DEF switched, RunInv, Run
  <2> QED
    BY <1>3, <2>1, <2>2, <2>3, DoneLinks, TaskNames
<1>6. CASE DropLink(c)
  <2> DEFINE d == [device EXCEPT !.current = "none"]
  <2>1. Done(c, "dropLink", "cleanUp", d) /\ run[c].pc = "dropLink"
    BY <1>6 DEF DropLink, Done
  <2>2. LinksInv(d) /\ RunInv(d, at("cleanUp"))
    BY <2>1, LinksTyped DEF LinksInv, Device
  <2> HIDE DEF d, RunInv, Run
  <2> QED
    BY <2>1, <2>2, DoneLinks, TaskNames
<1>7. CASE RestartService(c) \/ Recover(c)
  <2>1. \/ Done(c, "restart", "probe", Restart(device)) /\ run[c].pc = "restart"
        \/ /\ Done(c, "recover", "probePrevious", Restart(Reload(device)))
           /\ run[c].pc = "recover"
    BY <1>7 DEF RestartService, Recover, Done
  <2>2. /\ run[c].pc = "restart" => RunInv(device, at("probe"))
        /\ run[c].pc = "recover" => RunInv(device, at("probePrevious"))
    BY LinksTyped
  <2> HIDE DEF RunInv, Run
  <2> QED
    BY <2>1, <2>2, DoneBeside, ServiceBeside, TaskNames
<1>8. CASE DropOverride(c)
  <2> DEFINE d == [device EXCEPT !.override = FALSE]
  <2>1. Done(c, "dropOverride", "recover", d) /\ run[c].pc = "dropOverride"
    BY <1>8 DEF DropOverride, Done
  <2>2. SameLinks(d)
    BY Typed DEF SameLinks, Device
  <2>3. RunInv(device, at("recover"))
    BY <2>1, LinksTyped
  <2> HIDE DEF d
  <2> QED
    BY <2>1, <2>2, <2>3, DoneBeside, TaskNames
<1>9. CASE Probe(c)
  <2>1. \/ Finished(c, "probe", "succeeded")
        \/ run[c].pc = "probe" /\ run' = FailedRun(c) /\ UNCHANGED device
    BY <1>9 DEF Probe
  <2> QED
    BY <2>1, FinishedLinks, FailedLinks, ServiceBeside, TaskNames
<1>10. CASE ProbePrevious(c)
  <2> DEFINE to == IF run[c].action = "migrate" THEN "dropLink" ELSE "cleanUp"
  <2>1. run[c].pc = "probePrevious"
    BY <1>10 DEF ProbePrevious, Assert
  <2>2. Done(c, "probePrevious", to, device) \/ (run' = FailedRun(c) /\ UNCHANGED device)
    BY <1>10 DEF ProbePrevious, Assert
  <2>3. to \in {"dropLink", "cleanUp"}
    OBVIOUS
  <2> HIDE DEF to
  <2>4. RunInv(device, at(to))
    BY <2>1, <2>3, LinksTyped
  <2> HIDE DEF RunInv, Run
  <2>5. to \in Tasks /\ run[c].pc \in Tasks /\ "probePrevious" \in Tasks
    BY <2>1, <2>3, TaskNames
  <2>6. CASE Done(c, "probePrevious", to, device)
    BY <2>4, <2>5, <2>6, DoneBeside, ServiceBeside
  <2>7. CASE run' = FailedRun(c) /\ UNCHANGED device
    BY <2>5, <2>7, FailedLinks, ServiceBeside
  <2> QED
    BY <2>2, <2>6, <2>7
<1> QED
  BY <1>1, <1>2, <1>4, <1>5, <1>6, <1>7, <1>8, <1>9, <1>10 DEF Activate

\* install.yaml
LEMMA InstallLinks ==
    ASSUME Exclusive, LinksSafe, NEW c \in Controllers, Install(c)
    PROVE  LinksSafe'
<1> DEFINE at(to) == [run[c] EXCEPT !.pc = to]
           made == [device EXCEPT !.unit = "release"]
<1> USE DEF RunInv, Prepares, Preserves, Migrating, Activating, Installing, UndoInstalling,
            UndoMigrating, Run
<1>1. CASE Inspect(c)
  <2> DEFINE r == [run[c] EXCEPT !.pc = "environment", !.foundEnvironment = device.environment]
  <2>1. run' = [run EXCEPT ![c] = r] \/ run' = FailedRun(c)
    BY <1>1 DEF Inspect, Exclusive, Types
  <2>2. /\ run[c].pc = "inspect" /\ run[c].pc \in Tasks /\ Holding(c)
        /\ device' = device
    BY <1>1, TaskNames DEF Inspect, Holding
  <2>3. "environment" \in Steps /\ device.environment \in BOOLEAN
    BY Typed, TaskNames DEF Device
  <2>4. r \in Run
    BY <2>3, Typed
  <2>5. RunInv(device, r)
    BY <2>2, LinksTyped
  <2> HIDE DEF r
  <2> QED
    BY <2>1, <2>2, <2>4, <2>5, HolderLinks, FailedLinks, ServiceBeside, LinksTyped
<1>2. CASE Link(c)
  <2> DEFINE d == [device EXCEPT !.current = run[c].version]
  <2>1. Done(c, "link", "unit", d) /\ run[c].pc = "link"
    BY <1>2 DEF Link, Done
  <2>2. LinksInv(d)
    BY <2>1, LinksTyped DEF LinksInv, Linked, Device
  <2>3. RunInv(d, at("unit"))
    BY <2>1, LinksTyped DEF Linked, Device
  <2> HIDE DEF d, RunInv, Run
  <2> QED
    BY <2>1, <2>2, <2>3, DoneLinks, TaskNames
<1>3. CASE RemoveUnit(c)
  <2> DEFINE d == [device EXCEPT !.unit = "none", !.current = "none"]
  <2>1. Done(c, "removeUnit", "removeEnvironment", d) /\ run[c].pc = "removeUnit"
    BY <1>3 DEF RemoveUnit, Done
  <2>2. LinksInv(d)
    BY <2>1, LinksTyped DEF LinksInv, Device
  <2>3. RunInv(d, at("removeEnvironment"))
    BY <2>1, LinksTyped DEF Device
  <2> HIDE DEF d, RunInv, Run
  <2> QED
    BY <2>1, <2>2, <2>3, DoneLinks, TaskNames
<1>4. CASE CreateEnvironment(c) \/ RemoveEnvironment(c)
  <2> DEFINE d(b) == [device EXCEPT !.environment = b]
             found == device.environment /\ run[c].foundEnvironment
  <2>1. \A b : SameLinks(d(b))
    BY Typed DEF SameLinks, Device
  <2>2. \/ Done(c, "environment", "link", d(TRUE)) /\ run[c].pc = "environment"
        \/ /\ Done(c, "removeEnvironment", "reloadWithout", d(found))
           /\ run[c].pc = "removeEnvironment"
    BY <1>4, Typed DEF CreateEnvironment, RemoveEnvironment, Done, Device
  <2>3. /\ run[c].pc = "environment" => RunInv(device, at("link"))
        /\ run[c].pc = "removeEnvironment" => RunInv(device, at("reloadWithout"))
    BY LinksTyped
  <2> HIDE DEF d, found, RunInv, Run
  <2> QED
    BY <2>1, <2>2, <2>3, DoneBeside, TaskNames
<1>5. CASE InstallUnit(c)
  <2> DEFINE b == device.unit # "release"
             r == [run[c] EXCEPT !.pc = "start", !.unitMade = b]
  <2>1. run' = [run EXCEPT ![c] = r] /\ Holding(c) /\ device' = made /\ run[c].pc = "unit"
    BY <1>5 DEF InstallUnit, Exclusive, Types, Holding
  <2>2. "start" \in Steps /\ b \in BOOLEAN
    BY TaskNames
  <2>3. SameLinks(made)
    BY Typed DEF SameLinks, Device
  <2> HIDE DEF b, made
  <2>4. r \in Run
    BY <2>2, Typed
  <2>5. RunInv(device, r)
    BY <2>1, LinksTyped
  <2> HIDE DEF r, RunInv, Run
  <2> QED
    BY <2>1, <2>3, <2>4, <2>5, HolderLinks, SameKeeps, LinksTyped
<1>6. CASE StartService(c) \/ ReloadWithout(c)
  <2>1. /\ StartService(c) => run[c].pc = "start"
        /\ ReloadWithout(c) => run[c].pc = "reloadWithout"
    BY DEF StartService, ReloadWithout, Done
  <2>2. /\ run[c].pc = "start" => RunInv(device, at("firstProbe"))
        /\ run[c].pc = "reloadWithout" => RunInv(device, at("cleanUp"))
    BY LinksTyped
  <2> HIDE DEF RunInv, Run
  <2>3. CASE StartService(c)
    BY <2>1, <2>2, <2>3, DoneBeside, ServiceBeside, TaskNames DEF StartService
  <2>4. CASE ReloadWithout(c)
    BY <2>1, <2>2, <2>4, DoneBeside, ServiceBeside, TaskNames DEF ReloadWithout
  <2> QED
    BY <1>6, <2>3, <2>4
<1>7. CASE StopService(c)
  <2> DEFINE d == IF run[c].unitMade THEN Stop(Reload(device)) ELSE device
  <2>1. Done(c, "stop", "removeUnit", d) /\ run[c].pc = "stop"
    BY <1>7 DEF StopService, Done
  <2>2. SameLinks(d)
    BY ServiceBeside
  <2>3. RunInv(device, at("removeUnit"))
    BY <2>1, LinksTyped
  <2> HIDE DEF d
  <2> QED
    BY <2>1, <2>2, <2>3, DoneBeside, TaskNames
<1>8. CASE FirstProbe(c)
  <2>1. \/ Finished(c, "firstProbe", "succeeded")
        \/ run[c].pc = "firstProbe" /\ run' = FailedRun(c) /\ UNCHANGED device
    BY <1>8 DEF FirstProbe
  <2> QED
    BY <2>1, FinishedLinks, FailedLinks, ServiceBeside, TaskNames
<1> QED
  BY <1>1, <1>2, <1>3, <1>4, <1>5, <1>6, <1>7, <1>8 DEF Install

\* A task that fails may have removed the link of a first installation.
LEMMA FailLinks ==
    ASSUME Exclusive, LinksSafe, NEW c \in Controllers, Fail(c)
    PROVE  LinksSafe'
<1>1. CASE SameLinks(device')
  BY <1>1, FailedLinks DEF Fail
<1>2. CASE ~SameLinks(device')
  <2> DEFINE d == [device EXCEPT !.current = "none"]
             r == [run[c] EXCEPT !.pc = "cleanUp", !.outcome = OutcomeOf(run[c])]
  <2>1. run[c].pc = "removeUnit" /\ device' = d
    <3>1. SameLinks([device EXCEPT !.unit = "none"])
      BY Typed DEF SameLinks, Device
    <3> QED
      BY <1>2, <3>1, ServiceBeside DEF Fail, Halfway
  <2>2. OnFailure(run[c].pc) = "cleanUp"
    BY <2>1
    DEF OnFailure, Migrating, Activating, Installing, Preparing, Rescuing, UndoInstalling,
        UndoActivating, UndoMigrating, Cleaning
  <2>3. run' = [run EXCEPT ![c] = r] /\ Holding(c)
    BY <2>1, <2>2 DEF Fail, FailedRun, Exclusive, Types, Holding
  <2>4. OutcomeOf(run[c]) \in {"none", "succeeded", "failed", "unrecovered"}
    BY Typed DEF OutcomeOf, Run
  <2>5. "cleanUp" \in Steps
    BY TaskNames
  <2>6. r \in Run
    BY <2>4, <2>5, Typed DEF Run
  <2>7. LinksInv(d)
    BY <2>1, LinksTyped DEF LinksInv, RunInv, UndoInstalling, Device
  <2>8. RunInv(d, r)
    BY <2>1, LinksTyped
    DEF RunInv, Prepares, Preserves, Migrating, Activating, Installing, UndoInstalling,
        UndoMigrating, Run
  <2> HIDE DEF d, r
  <2> QED
    BY <2>1, <2>3, <2>6, <2>7, <2>8, HolderLinks
<1> QED
  BY <1>1, <1>2

\* What happens to the lock and around a run leaves the links alone.
LEMMA OtherLinks ==
    ASSUME Exclusive, LinksSafe,
           NEW c \in Controllers,
           StartRun(c) \/ Acquire(c) \/ Unlock(c) \/ RemoveLock(c) \/ Cut(c) \/ Respawn
    PROVE  LinksSafe'
<1> USE DEF RunInv, Prepares, Preserves, Migrating, Activating, Installing, UndoInstalling,
            UndoMigrating
<1>1. SameLinks(device')
  <2>1. \A b : SameLinks([device EXCEPT !.lock = b])
    BY Typed DEF SameLinks, Device
  <2> QED
    BY <2>1, ServiceBeside DEF StartRun, Acquire, Unlock, RemoveLock, Cut, Respawn
<1>2. \A r : RunInv(device, r) => RunInv(device', r)
  BY <1>1, SameKeeps
<1>3. LinksInv(device')
  BY <1>1, SameKeeps, LinksTyped
<1>4. ASSUME NEW r \in Run, run' = [run EXCEPT ![c] = r], RunInv(device, r)
      PROVE  LinksSafe'
  BY <1>2, <1>3, <1>4 DEF LinksSafe, Exclusive, Types
<1>5. RunInv(device, Idle) /\ Idle \in Run
  BY BareIsDevice DEF Idle, Run, Steps
<1>6. CASE StartRun(c)
  <2>1. PICK a \in {"deploy", "migrate", "rollback"}, v \in Versions :
          run' = [run EXCEPT ![c] = [Idle EXCEPT !.pc = "lock", !.action = a, !.version = v]]
    BY <1>6 DEF StartRun
  <2> DEFINE r == [Idle EXCEPT !.pc = "lock", !.action = a, !.version = v]
  <2>2. r \in Run /\ r.pc = "lock" /\ r.version = v
    BY BareIsDevice DEF Idle, Run, Steps
  <2>3. run' = [run EXCEPT ![c] = r]
    BY <2>1
  <2> HIDE DEF r
  <2>4. RunInv(device, r)
    BY <2>2
  <2> QED
    BY <1>4, <2>2, <2>3, <2>4
<1>7. CASE Acquire(c)
  <2> DEFINE r == [run[c] EXCEPT !.pc = "read", !.before = device]
  <2>1. run' = [run EXCEPT ![c] = Idle] \/ run' = [run EXCEPT ![c] = r]
    BY <1>7 DEF Acquire, Exclusive, Types
  <2>2. "read" \in Steps
    BY TaskNames
  <2>3. r \in Run /\ r.pc = "read" /\ r.version = run[c].version
    BY <2>2, Typed DEF Run
  <2>4. run[c].version \in Versions
    BY <1>7, LinksTyped DEF Acquire
  <2> HIDE DEF r
  <2>5. RunInv(device, r)
    BY <2>3, <2>4
  <2> QED
    BY <1>4, <1>5, <2>1, <2>3, <2>5
<1>8. CASE Unlock(c) \/ RemoveLock(c)
  BY <1>4, <1>5, <1>8 DEF Unlock, RemoveLock
<1>9. CASE Cut(c)
  <2> DEFINE r == [run[c] EXCEPT !.pc = "cut"]
  <2>1. run' = [run EXCEPT ![c] = r] /\ run[c].pc # "idle"
    BY <1>9, TaskNames DEF Cut, Exclusive, Types
  <2>2. r \in Run /\ r.pc = "cut" /\ r.version = run[c].version
    BY Typed DEF Run, Steps
  <2>3. run[c].version \in Versions
    BY <2>1, LinksTyped
  <2> HIDE DEF r
  <2>4. RunInv(device, r)
    BY <2>2, <2>3
  <2> QED
    BY <1>4, <2>1, <2>2, <2>4
<1>10. CASE Respawn
  <2>1. run' = run
    BY <1>10 DEF Respawn
  <2> QED
    BY <1>2, <1>3, <2>1 DEF LinksSafe
<1> QED
  BY <1>6, <1>7, <1>8, <1>9, <1>10

\* The invariant of the links, and with it the exclusion it needs.
LEMMA LinksAlways == Spec => [](Exclusive /\ LinksSafe)
<1>1. Init => Exclusive
  BY ExclusiveInit
<1>2. Init => LinksSafe
  <2> SUFFICES ASSUME Init PROVE LinksSafe
    OBVIOUS
  <2>1. RunInv(device, Idle)
    BY DEF RunInv, Idle, Prepares, Preserves, Migrating, Activating, Installing,
           UndoInstalling, UndoMigrating
  <2>2. LinksInv(device)
    <3>1. Bare.current = "none" /\ Bare.next = "none"
      BY DEF Bare
    <3>2. CASE device \in {Bare, [Bare EXCEPT !.environment = TRUE],
             [Bare EXCEPT !.unit = "source", !.loaded = "source", !.running = "source"]}
      <4>1. device.current = "none" /\ device.next = "none"
        <5>1. [Bare EXCEPT !.environment = TRUE].current = "none"
              /\ [Bare EXCEPT !.environment = TRUE].next = "none"
          BY <3>1, BareIsDevice DEF Device
        <5> DEFINE d == [Bare EXCEPT !.unit = "source", !.loaded = "source",
                                     !.running = "source"]
        <5>2. d.current = "none" /\ d.next = "none"
          BY <3>1, BareIsDevice DEF Device
        <5> QED
          BY <3>1, <3>2, <5>1, <5>2
      <4> QED
        BY <4>1 DEF LinksInv
    <3>3. ASSUME NEW v \in Versions \ Broken,
                 device = [Bare EXCEPT !.releases[v] = "complete", !.current = v,
                                       !.unit = "release", !.environment = TRUE,
                                       !.loaded = "release", !.running = v]
          PROVE  LinksInv(device)
      BY <3>1, <3>3, BareIsDevice, DeploymentAssumption DEF LinksInv, Device, Directories
    <3> QED
      BY <3>2, <3>3 DEF Init, Devices
  <2> QED
    BY <2>1, <2>2 DEF Init, LinksSafe
<1>3. Exclusive /\ [Next]_vars => Exclusive'
  BY ExclusiveStep
<1>4. Exclusive /\ LinksSafe /\ [Next]_vars => LinksSafe'
  <2> SUFFICES ASSUME Exclusive, LinksSafe, [Next]_vars PROVE LinksSafe'
    OBVIOUS
  <2>1. ASSUME NEW c \in Controllers, Perform(c)
        PROVE  LinksSafe'
    BY <2>1, ReadingLinks, StagingLinks, MigrateLinks, ActivateLinks, InstallLinks,
       OtherLinks DEF Perform
  <2>2. ASSUME NEW c \in Controllers, StartRun(c) \/ Fail(c) \/ Cut(c) \/ RemoveLock(c)
        PROVE  LinksSafe'
    BY <2>2, FailLinks, OtherLinks
  <2>3. CASE Respawn
    <3>1. SameLinks(device') /\ run' = run
      BY <2>3, ServiceBeside DEF Respawn
    <3> QED
      BY <3>1, SameKeeps DEF LinksSafe
  <2>4. CASE UNCHANGED vars
    BY <2>4 DEF vars, LinksSafe
  <2> QED
    BY <2>1, <2>2, <2>3, <2>4 DEF Next
<1> QED
  BY <1>1, <1>2, <1>3, <1>4, PTL DEF Spec

\* Whatever fails or is cut off, current and its replacement point to a complete
\* release or the preserved program (stage.yaml:93-101, activate.yaml:4-38,
\* migrate.yaml:2-63).
THEOREM LinksStayComplete == Spec => []LinksComplete
<1>1. Exclusive /\ LinksSafe => LinksComplete
  BY DEF LinksSafe, LinksInv, LinksComplete
<1> QED
  BY <1>1, LinksAlways, PTL
-----------------------------------------------------------------------------
(* What a run leaves behind.                                               *)

\* What systemd would run had it loaded the unit that is on disk.
Reloaded(b) == IF Effective(b) = "release" THEN b.current ELSE Effective(b)

\* The service is one that b may have run.
RunsAs(d, b) ==
    Program(d.running) \in {Program(b.running), Program(Target(b)), Program(Reloaded(b))}

SameFiles(d, b) ==
    /\ d.current = b.current /\ d.unit = b.unit
    /\ d.override = b.override /\ d.environment = b.environment

\* Reading the state loads a unit that was not loaded, and nothing else.
LoadedFrom(d, b) == d.loaded = b.loaded \/ (b.loaded = "none" /\ d.loaded = Effective(b))

Restored(d, b) ==
    SameFiles(d, b) /\ d.loaded \in {b.loaded, Effective(b)} /\ RunsAs(d, b)

Succeeded(d, r) ==
    /\ d.current = r.version /\ d.loaded = "release"
    /\ r.before.running = Target(r.before) =>
         d.running = r.version /\ r.version \notin Broken

\* What a run is about, from the state it has read.
KindInv(r) ==
    r.pc \in Tasks \ ({"read"} \cup Cleaning) =>
      /\ r.fresh => /\ r.action = "deploy" /\ r.before.loaded = "none"
                    /\ r.before.current = "none" /\ ~r.before.override
      /\ r.action = "migrate" => r.before.current = "none" /\ ~r.before.override
      /\ ~r.fresh /\ r.action # "migrate" =>
           r.before.current # "none" /\ r.previous = r.before.current
      /\ r.pc \in {"inspect"} \cup Installing \cup UndoInstalling => r.fresh
      /\ r.pc \in Preserves \cup Migrating \cup UndoMigrating \cup {"dropOverride", "dropLink"} =>
           r.action = "migrate"
      /\ r.pc \in Activating \cup UndoActivating =>
           ~r.fresh /\ (r.action = "migrate" => r.previous = "legacy")

\* While a run prepares, the device is as it was found.
PreparingInv(d, r) ==
    r.pc \in Preparing =>
      /\ SameFiles(d, r.before) /\ LoadedFrom(d, r.before) /\ RunsAs(d, r.before)
      /\ r.before.running = Target(r.before) => d.running = r.before.running
      /\ ~r.unitMade
      /\ r.pc # "read" /\ r.fresh => d.loaded = "none"
      /\ r.pc # "read" /\ ~r.fresh /\ r.action # "migrate" => d.loaded = "release"

\* Until the migration is loaded, systemd knows the unit of the original service.
MigratingInv(d, r) ==
    r.pc \in Migrating \cup UndoMigrating =>
      /\ d.unit = "source" /\ r.before.unit = "source" /\ d.loaded = "source"
      /\ d.environment = r.before.environment /\ RunsAs(d, r.before)
      /\ r.pc = "reload" => d.override
      /\ r.pc \in {"reloadOriginal", "removeLegacyLink"} => ~d.override

\* The links that are made, and those to go back to.
ActivatingInv(d, r) ==
    r.pc \in Activating \cup UndoActivating =>
      /\ d.unit = r.before.unit /\ d.environment = r.before.environment
      /\ r.action = "migrate" => r.before.unit = "source"
      /\ r.action # "migrate" \/ r.pc \in {"recover", "probePrevious", "dropLink"} =>
           d.override = r.before.override
      /\ r.pc \in Activating => d.loaded = "release"
      /\ r.pc = "switch" => d.next = r.version
      /\ r.pc \in {"restart", "probe"} => d.current = r.version
      /\ r.pc = "probe" /\ r.before.running = Target(r.before) =>
           d.running \in {r.version, "none"}
      /\ r.pc = "switchBack" => d.next = r.previous
      /\ r.pc \in {"dropOverride", "recover", "probePrevious", "dropLink"} =>
           d.current = r.previous
      /\ r.pc \in {"probePrevious", "dropLink"} =>
           d.loaded = Effective(r.before) /\ RunsAs(d, r.before)

\* What a first installation has made, and what of it is removed again.
InstallingInv(d, r) ==
    r.pc \in Installing \cup UndoInstalling =>
      /\ r.before.unit = "none" /\ ~d.override /\ d.loaded \in {"none", "release"}
      /\ r.foundEnvironment = r.before.environment
      /\ r.before.environment => d.environment
      /\ r.pc \in Installing \cup {"stop"} => d.unit = IF r.unitMade THEN "release" ELSE "none"
      /\ r.pc \in {"environment", "link", "unit"} => ~r.unitMade
      /\ r.pc \in {"start", "firstProbe"} => r.unitMade
      /\ ~r.unitMade => d.loaded = "none" /\ RunsAs(d, r.before)
      /\ r.unitMade /\ r.pc \in {"removeUnit", "removeEnvironment", "reloadWithout"} =>
           d.running = "none"
      /\ r.pc \in {"unit", "start", "firstProbe"} => d.current = r.version
      /\ r.pc = "firstProbe" => d.loaded = "release" /\ d.running = r.version
      /\ r.pc \in {"removeEnvironment", "reloadWithout"} =>
           d.current = "none" /\ d.unit = "none"
      /\ r.pc = "reloadWithout" => d.environment = r.before.environment

\* What a run has brought about when it comes to its last tasks.
OutcomeInv(d, r) ==
    /\ r.pc = "lock" => ~r.unitMade
    /\ r.pc \in Rescuing => r.outcome = "failed"
    /\ r.pc = "cleanUp" /\ r.outcome = "failed" => Restored(d, r.before)
    /\ r.pc = "cleanUp" /\ r.outcome = "succeeded" => Succeeded(d, r)

StageInv(d, r) ==
    /\ KindInv(r) /\ PreparingInv(d, r) /\ MigratingInv(d, r)
    /\ ActivatingInv(d, r) /\ InstallingInv(d, r) /\ OutcomeInv(d, r)

\* systemd knows the original service by its own unit only.
SourceInv(d) == d.loaded = "source" => d.unit = "source"

Traceable == SourceInv(device) /\ \A c \in Controllers : StageInv(device, run[c])

\* What a task leaves of its run when it moves on.
SameRun(r, s) ==
    /\ r.action = s.action /\ r.version = s.version /\ r.fresh = s.fresh
    /\ r.previous = s.previous /\ r.unitMade = s.unitMade
    /\ r.foundEnvironment = s.foundEnvironment /\ r.before = s.before

Moved(r, s) == SameRun(r, s) /\ r.outcome = s.outcome

\* stage.yaml, and what main.yaml does at the end.
LEMMA PreparingStages ==
    ASSUME NEW d \in Device, NEW e, NEW s \in Run, NEW r, Moved(r, s), StageInv(d, s),
           SameFiles(e, d), e.loaded = d.loaded, e.running = d.running
    PROVE  /\ s.pc = "stage" /\ r.pc = "extract" => StageInv(e, r)
           /\ s.pc = "extract" /\ r.pc = "publish" => StageInv(e, r)
           /\ s.pc = "publish" /\ r.pc = "verify" => StageInv(e, r)
           /\ s.pc = "cleanUp" /\ r.pc = "unlock" => StageInv(e, r)
BY DEF Moved, SameRun, StageInv, KindInv, PreparingInv, MigratingInv, ActivatingInv, InstallingInv,
       OutcomeInv, SameFiles, LoadedFrom, RunsAs, Tasks, Rescuing, Preparing, Preserves,
       Migrating, Activating, Installing, UndoMigrating, UndoActivating, UndoInstalling, Cleaning

\* migrate.yaml
LEMMA MigrateStages ==
    ASSUME NEW d \in Device, NEW s \in Run, NEW r, Moved(r, s), StageInv(d, s), SourceInv(d)
    PROVE  /\ s.pc = "backUp" /\ r.pc = "preserve" =>
                StageInv([d EXCEPT !.releases["legacy"] = "partial"], r)
           /\ s.pc = "preserve" /\ r.pc = "linkLegacy" /\ d.loaded = "source" =>
                StageInv([d EXCEPT !.releases["legacy"] = "complete"], r)
           /\ s.pc = "linkLegacy" /\ r.pc = "override" =>
                StageInv([d EXCEPT !.current = "legacy"], r)
           /\ s.pc = "override" /\ r.pc = "reload" => StageInv([d EXCEPT !.override = TRUE], r)
           /\ s.pc = "removeOverride" /\ r.pc = "reloadOriginal" =>
                StageInv([d EXCEPT !.override = FALSE], r)
           /\ s.pc = "reloadOriginal" /\ r.pc = "removeLegacyLink" => StageInv(Reload(d), r)
           /\ s.pc = "removeLegacyLink" /\ r.pc = "cleanUp" =>
                StageInv([d EXCEPT !.current = "none"], r)
<1> USE DEF Moved, SameRun, StageInv, KindInv, PreparingInv, MigratingInv, ActivatingInv,
            InstallingInv, OutcomeInv, Tasks, Rescuing, Preparing, Preserves, Migrating,
            Activating, Installing, UndoMigrating, UndoActivating, UndoInstalling, Cleaning,
            Device, RunsAs
<1>1. s.pc = "backUp" /\ r.pc = "preserve" =>
        StageInv([d EXCEPT !.releases["legacy"] = "partial"], r)
  BY DEF SameFiles, LoadedFrom
<1>2. s.pc = "preserve" /\ r.pc = "linkLegacy" /\ d.loaded = "source" =>
        StageInv([d EXCEPT !.releases["legacy"] = "complete"], r)
  BY DEF SameFiles, SourceInv
<1>3. s.pc = "linkLegacy" /\ r.pc = "override" => StageInv([d EXCEPT !.current = "legacy"], r)
  OBVIOUS
<1>4. s.pc = "override" /\ r.pc = "reload" => StageInv([d EXCEPT !.override = TRUE], r)
  OBVIOUS
<1>5. s.pc = "removeOverride" /\ r.pc = "reloadOriginal" =>
        StageInv([d EXCEPT !.override = FALSE], r)
  OBVIOUS
<1>6. s.pc = "reloadOriginal" /\ r.pc = "removeLegacyLink" => StageInv(Reload(d), r)
  BY DEF Reload, Effective
<1>7. s.pc = "removeLegacyLink" /\ r.pc = "cleanUp" =>
        StageInv([d EXCEPT !.current = "none"], r)
  BY DEF Restored, SameFiles, Effective, SourceInv, Run
<1> QED
  BY <1>1, <1>2, <1>3, <1>4, <1>5, <1>6, <1>7

\* migrate.yaml, as far as systemd has loaded the migration; then it is activated.
LEMMA MigratedStage ==
    ASSUME NEW d \in Device, NEW s \in Run, StageInv(d, s), SourceInv(d), s.pc = "reload"
    PROVE  StageInv(Reload(d), [s EXCEPT !.pc = "linkNext", !.previous = "legacy"])
BY DEF StageInv, KindInv, PreparingInv, MigratingInv, ActivatingInv, InstallingInv, OutcomeInv,
       Tasks, Rescuing, Preparing, Preserves, Migrating, Activating, Installing, UndoMigrating,
       UndoActivating, UndoInstalling, Cleaning, Device, Run, Reload, Effective

\* activate.yaml
LEMMA ActivateStages ==
    ASSUME NEW d \in Device, NEW s \in Run, NEW r, Moved(r, s), StageInv(d, s), SourceInv(d)
    PROVE  /\ s.pc = "linkNext" /\ r.pc = "switch" =>
                StageInv([d EXCEPT !.next = s.version], r)
           /\ s.pc = "switch" /\ r.pc = "restart" =>
                StageInv([d EXCEPT !.current = d.next, !.next = "none"], r)
           /\ s.pc = "restart" /\ r.pc = "probe" => StageInv(Restart(d), r)
           /\ s.pc = "linkPrevious" /\ r.pc = "switchBack" =>
                StageInv([d EXCEPT !.next = s.previous], r)
           /\ /\ s.pc = "switchBack"
              /\ r.pc = IF s.action = "migrate" THEN "dropOverride" ELSE "recover"
              => StageInv([d EXCEPT !.current = d.next, !.next = "none"], r)
           /\ s.pc = "dropOverride" /\ r.pc = "recover" =>
                StageInv([d EXCEPT !.override = FALSE], r)
           /\ s.pc = "recover" /\ r.pc = "probePrevious" => StageInv(Restart(Reload(d)), r)
           /\ /\ s.pc = "probePrevious"
              /\ r.pc = IF s.action = "migrate" THEN "dropLink" ELSE "cleanUp"
              => StageInv(d, r)
           /\ s.pc = "dropLink" /\ r.pc = "cleanUp" => StageInv([d EXCEPT !.current = "none"], r)
<1> USE DEF Moved, SameRun, StageInv, KindInv, PreparingInv, MigratingInv, ActivatingInv,
            InstallingInv, OutcomeInv, Tasks, Rescuing, Preparing, Preserves, Migrating,
            Activating, Installing, UndoMigrating, UndoActivating, UndoInstalling, Cleaning,
            Device, RunsAs
<1>1. s.pc = "linkNext" /\ r.pc = "switch" => StageInv([d EXCEPT !.next = s.version], r)
  BY DEF Run
<1>2. s.pc = "switch" /\ r.pc = "restart" =>
        StageInv([d EXCEPT !.current = d.next, !.next = "none"], r)
  OBVIOUS
<1>3. s.pc = "restart" /\ r.pc = "probe" => StageInv(Restart(d), r)
  BY DEF Restart, Target
<1>4. s.pc = "linkPrevious" /\ r.pc = "switchBack" => StageInv([d EXCEPT !.next = s.previous], r)
  BY DEF Run
<1>5. /\ s.pc = "switchBack"
      /\ r.pc = IF s.action = "migrate" THEN "dropOverride" ELSE "recover"
      => StageInv([d EXCEPT !.current = d.next, !.next = "none"], r)
  OBVIOUS
<1>6. s.pc = "dropOverride" /\ r.pc = "recover" => StageInv([d EXCEPT !.override = FALSE], r)
  <2> DEFINE e == [d EXCEPT !.override = FALSE]
  <2> SUFFICES ASSUME s.pc = "dropOverride", r.pc = "recover" PROVE StageInv(e, r)
    OBVIOUS
  <2>1. s.before.override = FALSE
    <3>1. ~s.before.override
      OBVIOUS
    <3>2. s.before.override \in BOOLEAN
      BY DEF Run
    <3> QED
      BY <3>1, <3>2
  <2>2. /\ e.current = d.current /\ e.unit = d.unit /\ e.override = FALSE
        /\ e.environment = d.environment
    OBVIOUS
  <2> HIDE DEF e
  <2>3. KindInv(r)
    OBVIOUS
  <2>4. /\ s.before.unit = d.unit /\ s.before.environment = d.environment
        /\ s.action = "migrate" => s.before.unit = "source"
        /\ d.current = s.previous
    OBVIOUS
  <2>5. r.action = s.action /\ r.before = s.before /\ r.previous = s.previous
    OBVIOUS
  <2>6. r.pc = "recover"
    OBVIOUS
  <2>7. /\ e.current = r.previous /\ e.unit = r.before.unit
        /\ e.environment = r.before.environment
    BY <2>2, <2>4, <2>5
  <2>8. e.override = r.before.override
    BY <2>1, <2>2, <2>5
  <2>9. r.action = "migrate" => r.before.unit = "source"
    BY <2>4, <2>5
  <2>10. ActivatingInv(e, r)
    BY ONLY <2>6, <2>7, <2>8, <2>9 DEF ActivatingInv, Activating
  <2> QED
    BY <2>3, <2>6, <2>10
<1>7. s.pc = "recover" /\ r.pc = "probePrevious" => StageInv(Restart(Reload(d)), r)
  BY DEF Restart, Reload, Reloaded, Effective, Target, Program
<1>8. /\ s.pc = "probePrevious"
      /\ r.pc = IF s.action = "migrate" THEN "dropLink" ELSE "cleanUp"
      => StageInv(d, r)
  BY DEF Restored, SameFiles
<1>9. s.pc = "dropLink" /\ r.pc = "cleanUp" => StageInv([d EXCEPT !.current = "none"], r)
  BY DEF Restored, SameFiles
<1> QED
  BY <1>1, <1>2, <1>3, <1>4, <1>5, <1>6, <1>7, <1>8, <1>9

\* install.yaml
LEMMA InstallStages ==
    ASSUME NEW d \in Device, NEW s \in Run, NEW r, Moved(r, s), StageInv(d, s)
    PROVE  /\ s.pc = "environment" /\ r.pc = "link" =>
                StageInv([d EXCEPT !.environment = TRUE], r)
           /\ s.pc = "link" /\ r.pc = "unit" => StageInv([d EXCEPT !.current = s.version], r)
           /\ s.pc = "start" /\ r.pc = "firstProbe" => StageInv(Restart(Reload(d)), r)
           /\ s.pc = "stop" /\ r.pc = "removeUnit" =>
                StageInv(IF s.unitMade THEN Stop(Reload(d)) ELSE d, r)
           /\ s.pc = "removeUnit" /\ r.pc = "removeEnvironment" =>
                StageInv([d EXCEPT !.unit = "none", !.current = "none"], r)
           /\ s.pc = "removeEnvironment" /\ r.pc = "reloadWithout" =>
                StageInv([d EXCEPT !.environment = @ /\ s.foundEnvironment], r)
           /\ s.pc = "reloadWithout" /\ r.pc = "cleanUp" => StageInv(Reload(d), r)
<1> USE DEF Moved, SameRun, StageInv, KindInv, PreparingInv, MigratingInv, ActivatingInv,
            InstallingInv, OutcomeInv, Tasks, Rescuing, Preparing, Preserves, Migrating,
            Activating, Installing, UndoMigrating, UndoActivating, UndoInstalling, Cleaning,
            Device, RunsAs
<1>1. s.pc = "environment" /\ r.pc = "link" => StageInv([d EXCEPT !.environment = TRUE], r)
  OBVIOUS
<1>2. s.pc = "link" /\ r.pc = "unit" => StageInv([d EXCEPT !.current = s.version], r)
  BY DEF Run
<1>3. s.pc = "start" /\ r.pc = "firstProbe" => StageInv(Restart(Reload(d)), r)
  BY DEF Restart, Reload, Effective, Target
<1>4. s.pc = "stop" /\ r.pc = "removeUnit" =>
        StageInv(IF s.unitMade THEN Stop(Reload(d)) ELSE d, r)
  BY DEF Stop, Reload, Effective
<1>5. s.pc = "removeUnit" /\ r.pc = "removeEnvironment" =>
        StageInv([d EXCEPT !.unit = "none", !.current = "none"], r)
  OBVIOUS
<1>6. s.pc = "removeEnvironment" /\ r.pc = "reloadWithout" =>
        StageInv([d EXCEPT !.environment = @ /\ s.foundEnvironment], r)
  BY DEF Run
<1>7. s.pc = "reloadWithout" /\ r.pc = "cleanUp" => StageInv(Reload(d), r)
  BY DEF Reload, Effective, Restored, SameFiles, Reloaded, Program, Target, Run
<1> QED
  BY <1>1, <1>2, <1>3, <1>4, <1>5, <1>6, <1>7

\* main.yaml and install.yaml, where a run takes note of what it finds.
LEMMA NotingStages ==
    ASSUME NEW d \in Device, NEW s \in Run, StageInv(d, s), SourceInv(d)
    PROVE  /\ \A r, e : s.pc = "lock" /\ r.pc = "read" /\ r.unitMade = s.unitMade /\ r.before = d
                /\ SameFiles(e, d) /\ e.loaded = d.loaded /\ e.running = d.running
                => StageInv(e, r)
           /\ \A r : Moved(r, s) /\ s.pc = "verify"
                /\ r.pc = (CASE s.action = "migrate" -> "backUp"
                             [] s.fresh -> "inspect"
                             [] OTHER -> IF s.previous = s.version THEN "probe" ELSE "linkNext")
                => StageInv(d, r)
           /\ s.pc = "inspect" /\ d.unit = "none" =>
                StageInv(d, [s EXCEPT !.pc = "environment", !.foundEnvironment = d.environment])
           /\ s.pc = "unit" =>
                StageInv([d EXCEPT !.unit = "release"],
                         [s EXCEPT !.pc = "start", !.unitMade = d.unit # "release"])
<1> USE DEF Moved, SameRun, StageInv, KindInv, PreparingInv, MigratingInv, ActivatingInv,
            InstallingInv, OutcomeInv, Tasks, Rescuing, Preparing, Preserves, Migrating,
            Activating, Installing, UndoMigrating, UndoActivating, UndoInstalling, Cleaning,
            Device, RunsAs
<1>1. ASSUME NEW r, NEW e, s.pc = "lock", r.pc = "read", r.unitMade = s.unitMade, r.before = d,
             SameFiles(e, d), e.loaded = d.loaded, e.running = d.running
      PROVE  StageInv(e, r)
  BY <1>1 DEF SameFiles, LoadedFrom
<1>2. ASSUME NEW r, Moved(r, s), s.pc = "verify",
             r.pc = CASE s.action = "migrate" -> "backUp"
                      [] s.fresh -> "inspect"
                      [] OTHER -> IF s.previous = s.version THEN "probe" ELSE "linkNext"
      PROVE  StageInv(d, r)
  <2>1. CASE s.action = "migrate"
    <3>1. r.pc = "backUp" /\ ~s.fresh
      BY <1>2, <2>1
    <3> QED
      BY <1>2, <2>1, <3>1
  <2>2. CASE s.action # "migrate" /\ s.fresh
    <3>1. r.pc = "inspect"
      BY <1>2, <2>2
    <3> QED
      BY <1>2, <2>2, <3>1
  <2>3. CASE s.action # "migrate" /\ ~s.fresh
    <3>1. r.pc = IF s.previous = s.version THEN "probe" ELSE "linkNext"
      BY <1>2, <2>3
    <3>2. CASE s.previous = s.version
      BY <1>2, <2>3, <3>1, <3>2 DEF SameFiles, LoadedFrom, Target
    <3>3. CASE s.previous # s.version
      BY <1>2, <2>3, <3>1, <3>3 DEF SameFiles
    <3> QED
      BY <3>2, <3>3
  <2> QED
    BY <2>1, <2>2, <2>3
<1>3. s.pc = "inspect" /\ d.unit = "none" =>
        StageInv(d, [s EXCEPT !.pc = "environment", !.foundEnvironment = d.environment])
  BY DEF SameFiles, Run
<1>4. s.pc = "unit" =>
        StageInv([d EXCEPT !.unit = "release"],
                 [s EXCEPT !.pc = "start", !.unitMade = d.unit # "release"])
  <2> DEFINE made == d.unit # "release"
             r == [s EXCEPT !.pc = "start", !.unitMade = made]
  <2> SUFFICES ASSUME s.pc = "unit" PROVE StageInv([d EXCEPT !.unit = "release"], r)
    OBVIOUS
  <2>1. made
    OBVIOUS
  <2> HIDE DEF made
  <2> QED
    BY <2>1 DEF Run
<1> HIDE DEF StageInv
<1> QED
  BY <1>1, <1>2, <1>3, <1>4

\* The state that is read decides what a run is about; a unit may be loaded for it.
LEMMA ReadStage ==
    ASSUME NEW d \in Device, NEW s \in Run, NEW r, NEW e, StageInv(d, s), s.pc = "read",
           e = d \/ (d.loaded = "none" /\ e = Reload(d)),
           r.before = s.before, r.action = s.action, r.unitMade = s.unitMade,
           r.outcome = s.outcome, r.version = s.version
    PROVE  /\ /\ r.pc = IF s.action = "rollback" THEN "verify" ELSE "stage"
              /\ r.fresh = (s.action = "deploy" /\ e.loaded = "none") /\ r.previous = e.current
              /\ Valid(s.action, r.fresh, e)
              => StageInv(e, r)
           /\ \A q : q.pc = "cleanUp" /\ q.outcome = "failed" /\ q.before = s.before =>
                       StageInv(e, q)
<1> USE DEF StageInv, KindInv, PreparingInv, MigratingInv, ActivatingInv, InstallingInv,
            OutcomeInv, Tasks, Rescuing, Preparing, Preserves, Migrating, Activating, Installing,
            UndoMigrating, UndoActivating, UndoInstalling, Cleaning, Device, RunsAs
<1>1. /\ SameFiles(e, s.before) /\ LoadedFrom(e, s.before) /\ RunsAs(e, s.before)
      /\ s.before.running = Target(s.before) => e.running = s.before.running
      /\ ~s.unitMade
  BY DEF SameFiles, LoadedFrom, Reload, Effective
<1>2. ASSUME r.pc = IF s.action = "rollback" THEN "verify" ELSE "stage",
             r.fresh = (s.action = "deploy" /\ e.loaded = "none"), r.previous = e.current,
             Valid(s.action, r.fresh, e)
      PROVE  StageInv(e, r)
  <2>1. r.pc \in {"verify", "stage"}
    BY <1>2
  <2>2. e \in Device
    BY ServiceTypes
  <2>3. KindInv(r)
    <3>1. /\ r.before.current = e.current /\ r.before.override = e.override
          /\ r.before.loaded = e.loaded \/ r.before.loaded = "none"
      BY <1>1 DEF SameFiles, LoadedFrom
    <3>2. CASE r.fresh
      <4>1. e.loaded = "none" /\ s.action = "deploy"
        BY <1>2, <3>2
      <4>2. e.current = "none" /\ ~e.override
        BY ONLY <1>2, <4>1 DEF Valid
      <4>3. r.action = "deploy"
        BY <4>1
      <4> QED
        BY ONLY <2>1, <3>1, <3>2, <4>1, <4>2, <4>3
        DEF KindInv, Preserves, Migrating, UndoMigrating, Activating, UndoActivating, Installing,
            UndoInstalling
    <3>3. CASE ~r.fresh
      BY <1>2, <2>1, <3>1, <3>3 DEF Valid
    <3> QED
      BY <3>2, <3>3
  <2>4. PreparingInv(e, r)
    BY <1>1, <1>2, <2>1 DEF Valid
  <2> QED
    BY <2>1, <2>3, <2>4
<1>3. ASSUME NEW q, q.pc = "cleanUp", q.outcome = "failed", q.before = s.before
      PROVE  StageInv(e, q)
  BY <1>1, <1>3 DEF Restored, LoadedFrom
<1> HIDE DEF StageInv
<1> QED
  BY <1>2, <1>3

\* What a task that fails may have done to the files and the unit; of a task that
\* takes back, a run expects nothing any more.
Failing(d, e, pc) ==
    \/ e = d
    \/ pc = "restart" /\ SameFiles(e, d) /\ e.loaded = d.loaded
    \/ pc = "start" /\ SameFiles(e, d) /\ e.loaded \in {d.loaded, Effective(d)}
    \/ pc \in Rescuing

\* The rescue of a section finds what it needs, and a run without one has done nothing.
LEMMA FailedStage ==
    ASSUME NEW d \in Device, NEW s \in Run, NEW r, NEW e, StageInv(d, s), s.pc \in Tasks,
           SameRun(r, s), r.pc = OnFailure(s.pc), r.outcome = OutcomeOf(s), Failing(d, e, s.pc)
    PROVE  StageInv(e, r)
<1> USE DEF SameRun, StageInv, KindInv, PreparingInv, MigratingInv, ActivatingInv,
            InstallingInv, OutcomeInv, Tasks, Rescuing, Preparing, Preserves, Migrating,
            Activating, Installing, UndoMigrating, UndoActivating, UndoInstalling, Cleaning,
            RunsAs
<1>1. CASE s.pc \in Preparing
  <2>1. r.pc = "cleanUp" /\ r.outcome = "failed" /\ e = d
    BY <1>1 DEF OnFailure, OutcomeOf, Failing
  <2> QED
    BY <1>1, <2>1 DEF Restored, LoadedFrom
<1>2. CASE s.pc \in Migrating
  <2>1. r.pc = "removeOverride" /\ r.outcome = "failed" /\ e = d
    BY <1>2 DEF OnFailure, OutcomeOf, Failing
  <2> QED
    BY <1>2, <2>1
<1>3. CASE s.pc \in Activating
  <2>1. r.pc = "linkPrevious" /\ r.outcome = "failed" /\ SameFiles(e, d)
    BY <1>3 DEF OnFailure, OutcomeOf, Failing, SameFiles
  <2> QED
    BY <1>3, <2>1 DEF SameFiles
<1>4. CASE s.pc \in Installing
  <2>1. /\ r.pc = "stop" /\ r.outcome = "failed" /\ SameFiles(e, d)
        /\ e.loaded \in {d.loaded, Effective(d)}
        /\ s.pc # "start" => e = d
    BY <1>4 DEF OnFailure, OutcomeOf, Failing, SameFiles
  <2>2. e.loaded \in {"none", "release"}
    BY <1>4, <2>1 DEF Effective
  <2> QED
    BY <1>4, <2>1, <2>2 DEF SameFiles
<1>5. CASE s.pc \in Rescuing
  <2>1. r.pc = "cleanUp" /\ r.outcome = "unrecovered"
    BY <1>5 DEF OnFailure, OutcomeOf
  <2> QED
    BY <2>1
<1>6. CASE s.pc \in Cleaning
  <2>1. r.pc = "stuck"
    BY <1>6 DEF OnFailure
  <2> QED
    BY <2>1
<1> QED
  BY <1>1, <1>2, <1>3, <1>4, <1>5, <1>6

\* A run ends well only where the probe finds the requested release.
LEMMA ProbedStage ==
    ASSUME NEW d \in Device, NEW s \in Run, NEW r, StageInv(d, s),
           s.pc \in {"probe", "firstProbe"}, SameRun(r, s), r.pc = "cleanUp",
           r.outcome = "succeeded", d.running \notin Broken \cup {"none"}
    PROVE  StageInv(d, r)
BY DEF SameRun, StageInv, KindInv, PreparingInv, MigratingInv, ActivatingInv, InstallingInv,
       OutcomeInv, Succeeded, Tasks, Rescuing, Preparing, Preserves, Migrating, Activating,
       Installing, UndoMigrating, UndoActivating, UndoInstalling, Cleaning

\* systemd starts what a run may find running, at any moment.
LEMMA RespawnStage ==
    ASSUME NEW d \in Device, NEW s \in Run, StageInv(d, s), d.running # "none"
    PROVE  StageInv(Restart(d), s)
<1> DEFINE e == Restart(d)
           b == s.before
<1>1. /\ SameFiles(e, d) /\ e.loaded = d.loaded /\ e.next = d.next
      /\ e.running = IF d.loaded = "release" THEN d.current ELSE d.loaded
  BY DEF Restart, Target, Device, SameFiles
<1>2. b \in Device
  BY DEF Run
<1> HIDE DEF e
<1>3. KindInv(s) /\ (s.pc = "lock" => ~s.unitMade) /\ (s.pc \in Rescuing => s.outcome = "failed")
  BY DEF StageInv, OutcomeInv
<1>4. PreparingInv(e, s)
  BY <1>1, <1>2
  DEF StageInv, PreparingInv, SameFiles, LoadedFrom, RunsAs, Target, Reloaded, Device
<1>5. MigratingInv(e, s)
  BY <1>1, <1>2
  DEF StageInv, MigratingInv, KindInv, SameFiles, RunsAs, Target, Reloaded, Effective, Tasks,
      Rescuing, Preserves, Migrating, UndoMigrating, Cleaning
<1>6. ActivatingInv(e, s)
  BY <1>1, <1>2, DeploymentAssumption
  DEF StageInv, ActivatingInv, KindInv, SameFiles, RunsAs, Target, Reloaded, Effective, Tasks,
      Rescuing, Activating, UndoActivating, Cleaning, Program
<1>7. InstallingInv(e, s)
  BY <1>1, <1>2
  DEF StageInv, InstallingInv, KindInv, SameFiles, RunsAs, Target, Reloaded, Effective, Tasks,
      Rescuing, Installing, UndoInstalling, Cleaning, Program
<1>8. s.pc = "cleanUp" /\ s.outcome = "failed" => Restored(e, b)
  BY <1>1, <1>2
  DEF StageInv, OutcomeInv, Restored, SameFiles, RunsAs, Target, Reloaded
<1>9. s.pc = "cleanUp" /\ s.outcome = "succeeded" => Succeeded(e, s)
  BY <1>1 DEF StageInv, OutcomeInv, Succeeded, SameFiles
<1> QED
  BY <1>3, <1>4, <1>5, <1>6, <1>7, <1>8, <1>9 DEF StageInv, OutcomeInv, e

\* systemd comes to know the original service by its own unit only.
LEMMA SourceKnown ==
    ASSUME NEW d \in Device, SourceInv(d)
    PROVE  /\ SourceInv(Reload(d)) /\ SourceInv(Restart(d)) /\ SourceInv(Stop(d))
           /\ SourceInv(Stop(Reload(d))) /\ SourceInv(Restart(Reload(d)))
BY DEF SourceInv, Reload, Restart, Stop, Effective, Device

\* What the invariants say of one run.
LEMMA Traced ==
    ASSUME Exclusive, Traceable, NEW c \in Controllers
    PROVE  /\ device \in Device /\ run[c] \in Run
           /\ SourceInv(device) /\ StageInv(device, run[c])
BY Typed DEF Traceable

\* Nothing is expected of the device for a run that does not work on it.
LEMMA AwayStage ==
    ASSUME NEW d, NEW r, r.pc \in {"idle", "lock", "cut", "stuck"}, r.pc = "lock" => ~r.unitMade
    PROVE  StageInv(d, r)
BY DEF StageInv, KindInv, PreparingInv, MigratingInv, ActivatingInv, InstallingInv, OutcomeInv,
       Tasks, Rescuing, Preparing, Preserves, Migrating, Activating, Installing, UndoMigrating,
       UndoActivating, UndoInstalling, Cleaning

\* A step of the run that holds the lock: of the others nothing is expected.
LEMMA HolderTraces ==
    ASSUME Exclusive, Traceable, NEW c \in Controllers, Holding(c), NEW r,
           run' = [run EXCEPT ![c] = r], SourceInv(device'), StageInv(device', r)
    PROVE  Traceable'
<1>1. ASSUME NEW o \in Controllers, o # c
      PROVE  StageInv(device', run'[o])
  <2>1. run[o].pc \in {"idle", "lock"}
    BY <1>1 DEF Exclusive, OneDeployment, Holding
  <2>2. run'[o] = run[o]
    BY <1>1 DEF Exclusive, Types
  <2>3. run[o].pc = "lock" => ~run[o].unitMade
    BY DEF Traceable, StageInv, OutcomeInv
  <2> QED
    BY <2>1, <2>2, <2>3, AwayStage
<1>2. run'[c] = r
  BY DEF Exclusive, Types
<1> QED
  BY <1>1, <1>2 DEF Traceable

\* A task that succeeds.
LEMMA DoneTraces ==
    ASSUME Exclusive, Traceable, NEW c \in Controllers, NEW from \in Tasks, NEW to \in Tasks,
           NEW d, Done(c, from, to, d), SourceInv(d),
           \A r : Moved(r, run[c]) /\ r.pc = to => StageInv(d, r)
    PROVE  Traceable'
<1> DEFINE r == [run[c] EXCEPT !.pc = to]
<1>1. run' = [run EXCEPT ![c] = r] /\ device' = d /\ run[c].pc = from
  BY DEF Done, Exclusive, Types
<1>2. Moved(r, run[c]) /\ r.pc = to
  BY Typed DEF Run, Moved, SameRun
<1>3. Holding(c)
  BY <1>1, TaskNames DEF Holding
<1> HIDE DEF r
<1> QED
  BY <1>1, <1>2, <1>3, HolderTraces

\* A task that fails, at an assertion or otherwise.
LEMMA FailedTraces ==
    ASSUME Exclusive, Traceable, NEW c \in Controllers, run[c].pc \in Tasks,
           SourceInv(device'), Failing(device, device', run[c].pc), run' = FailedRun(c)
    PROVE  Traceable'
<1> DEFINE r == [run[c] EXCEPT !.pc = OnFailure(run[c].pc), !.outcome = OutcomeOf(run[c])]
<1>1. run' = [run EXCEPT ![c] = r]
  BY DEF FailedRun, Exclusive, Types
<1>2. SameRun(r, run[c]) /\ r.pc = OnFailure(run[c].pc) /\ r.outcome = OutcomeOf(run[c])
  BY Typed DEF Run, SameRun
<1>3. Holding(c)
  BY TaskNames DEF Holding
<1> HIDE DEF r
<1>4. StageInv(device', r)
  BY <1>2, Traced, FailedStage
<1> QED
  BY <1>1, <1>3, <1>4, HolderTraces

\* An assertion that does not hold leaves the device as it is.
LEMMA AssertTraces ==
    ASSUME Exclusive, Traceable, NEW c \in Controllers, NEW from \in Tasks,
           run[c].pc = from, device' = device, run' = FailedRun(c)
    PROVE  Traceable'
BY FailedTraces, Traced DEF Failing

\* A run whose requested release answers the probe.
LEMMA ProbedTraces ==
    ASSUME Exclusive, Traceable, NEW c \in Controllers, Answers,
           NEW from \in {"probe", "firstProbe"}, Finished(c, from, "succeeded")
    PROVE  Traceable'
<1> DEFINE r == [run[c] EXCEPT !.pc = "cleanUp", !.outcome = "succeeded"]
<1>1. run' = [run EXCEPT ![c] = r] /\ device' = device /\ run[c].pc = from
  BY DEF Finished, Exclusive, Types
<1>2. SameRun(r, run[c]) /\ r.pc = "cleanUp" /\ r.outcome = "succeeded"
  BY Typed DEF Run, SameRun
<1>3. Holding(c)
  BY <1>1 DEF Holding
<1> HIDE DEF r
<1>4. StageInv(device, r)
  BY <1>1, <1>2, Traced, ProbedStage DEF Answers
<1> QED
  BY <1>1, <1>3, <1>4, Traced, HolderTraces

\* The fields a task writes beside the service leave it known to systemd.
LEMMA SourceBeside ==
    ASSUME Exclusive, Traceable, NEW e, e.loaded = device.loaded, e.unit = device.unit
    PROVE  SourceInv(e)
BY DEF Traceable, SourceInv

\* stage.yaml, and the removal of what a run has staged.
LEMMA StagingTraces ==
    ASSUME Exclusive, Traceable, NEW c \in Controllers,
           Stage(c) \/ Extract(c) \/ Publish(c) \/ CleanUp(c)
    PROVE  Traceable'
<1> DEFINE Beside(d) ==
             SameFiles(d, device) /\ d.loaded = device.loaded /\ d.running = device.running
<1>1. ASSUME NEW d, Beside(d)
      PROVE  SourceInv(d)
  BY <1>1, SourceBeside DEF SameFiles
<1>2. ASSUME NEW d, Beside(d), NEW r, Moved(r, run[c])
      PROVE  /\ run[c].pc = "stage" /\ r.pc = "extract" => StageInv(d, r)
             /\ run[c].pc = "extract" /\ r.pc = "publish" => StageInv(d, r)
             /\ run[c].pc = "publish" /\ r.pc = "verify" => StageInv(d, r)
             /\ run[c].pc = "cleanUp" /\ r.pc = "unlock" => StageInv(d, r)
  BY <1>2, Traced, PreparingStages
<1>3. \A from, to, d : Done(c, from, to, d) => run[c].pc = from
  BY DEF Done
<1> DEFINE staged(content) == [device EXCEPT !.staging[c] = content]
<1>4. \A content : Beside(staged(content))
  BY Typed DEF SameFiles, Device
<1>5. /\ Stage(c) => Done(c, "stage", "extract", staged("partial"))
      /\ Extract(c) => Done(c, "extract", "publish", staged("complete"))
      /\ CleanUp(c) => Done(c, "cleanUp", "unlock", staged("absent"))
  BY DEF Stage, Extract, CleanUp
<1> DEFINE v == run[c].version
           published == [device EXCEPT !.releases[v] = device.staging[c],
                                       !.staging[c] = "absent"]
<1>6. Beside(published) /\ Beside(device)
  BY Typed DEF SameFiles, Device
<1>7. IF run[c].pc = "publish" /\ device.releases[v] = "absent"
        THEN Publish(c) => Done(c, "publish", "verify", published)
        ELSE Publish(c) => \/ Done(c, "publish", "verify", device)
                           \/ run[c].pc = "publish" /\ run' = FailedRun(c) /\ UNCHANGED device
  BY DEF Publish, Assert
<1> HIDE DEF Beside, staged, published
<1>8. CASE Stage(c)
  BY <1>1, <1>2, <1>3, <1>4, <1>5, <1>8, DoneTraces, TaskNames
<1>9. CASE Extract(c)
  BY <1>1, <1>2, <1>3, <1>4, <1>5, <1>9, DoneTraces, TaskNames
<1>10. CASE CleanUp(c)
  BY <1>1, <1>2, <1>3, <1>4, <1>5, <1>10, DoneTraces, TaskNames
<1>11. CASE Publish(c)
  <2>1. CASE Done(c, "publish", "verify", published) \/ Done(c, "publish", "verify", device)
    BY <1>1, <1>2, <1>3, <1>6, <2>1, DoneTraces, TaskNames
  <2>2. CASE run[c].pc = "publish" /\ run' = FailedRun(c) /\ UNCHANGED device
    BY <2>2, AssertTraces, TaskNames
  <2> QED
    BY <1>7, <1>11, <2>1, <2>2
<1> QED
  BY <1>8, <1>9, <1>10, <1>11

\* migrate.yaml
LEMMA MigrateTraces ==
    ASSUME Exclusive, Traceable, NEW c \in Controllers, Migrate(c)
    PROVE  Traceable'
<1> DEFINE kept(content) == [device EXCEPT !.releases["legacy"] = content]
           linked(link) == [device EXCEPT !.current = link]
           overridden(b) == [device EXCEPT !.override = b]
<1>1. /\ \A content : SourceInv(kept(content))
      /\ \A link : SourceInv(linked(link))
      /\ \A b : SourceInv(overridden(b))
  BY SourceBeside, Typed DEF Device
<1>2. SourceInv(Reload(device))
  BY SourceKnown, Traced
<1>3. ASSUME NEW r, Moved(r, run[c])
      PROVE  /\ run[c].pc = "backUp" /\ r.pc = "preserve" => StageInv(kept("partial"), r)
             /\ run[c].pc = "preserve" /\ r.pc = "linkLegacy" /\ device.loaded = "source" =>
                  StageInv(kept("complete"), r)
             /\ run[c].pc = "linkLegacy" /\ r.pc = "override" => StageInv(linked("legacy"), r)
             /\ run[c].pc = "override" /\ r.pc = "reload" => StageInv(overridden(TRUE), r)
             /\ run[c].pc = "removeOverride" /\ r.pc = "reloadOriginal" =>
                  StageInv(overridden(FALSE), r)
             /\ run[c].pc = "reloadOriginal" /\ r.pc = "removeLegacyLink" =>
                  StageInv(Reload(device), r)
             /\ run[c].pc = "removeLegacyLink" /\ r.pc = "cleanUp" =>
                  StageInv(linked("none"), r)
  BY <1>3, Traced, MigrateStages
<1>4. /\ BackUp(c) => Done(c, "backUp", "preserve", kept("partial"))
      /\ LinkLegacy(c) => Done(c, "linkLegacy", "override", linked("legacy"))
      /\ Override(c) => Done(c, "override", "reload", overridden(TRUE))
      /\ RemoveOverride(c) => Done(c, "removeOverride", "reloadOriginal", overridden(FALSE))
      /\ ReloadOriginal(c) => Done(c, "reloadOriginal", "removeLegacyLink", Reload(device))
      /\ RemoveLegacyLink(c) => Done(c, "removeLegacyLink", "cleanUp", linked("none"))
  BY DEF BackUp, LinkLegacy, Override, RemoveOverride, ReloadOriginal, RemoveLegacyLink
<1>5. Preserve(c) => \/ /\ Done(c, "preserve", "linkLegacy", kept("complete"))
                        /\ device.loaded = "source"
                     \/ run[c].pc = "preserve" /\ run' = FailedRun(c) /\ UNCHANGED device
  BY DEF Preserve, Assert
<1>6. \A from, to, d : Done(c, from, to, d) => run[c].pc = from
  BY DEF Done
<1> HIDE DEF kept, linked, overridden
<1>7. CASE BackUp(c)
  BY <1>1, <1>3, <1>4, <1>6, <1>7, DoneTraces, TaskNames
<1>8. CASE Preserve(c)
  BY <1>1, <1>3, <1>5, <1>6, <1>8, DoneTraces, AssertTraces, TaskNames
<1>9. CASE LinkLegacy(c)
  BY <1>1, <1>3, <1>4, <1>6, <1>9, DoneTraces, TaskNames
<1>10. CASE Override(c)
  BY <1>1, <1>3, <1>4, <1>6, <1>10, DoneTraces, TaskNames
<1>11. CASE RemoveOverride(c)
  BY <1>1, <1>3, <1>4, <1>6, <1>11, DoneTraces, TaskNames
<1>12. CASE ReloadOriginal(c)
  BY <1>2, <1>3, <1>4, <1>6, <1>12, DoneTraces, TaskNames
<1>13. CASE RemoveLegacyLink(c)
  BY <1>1, <1>3, <1>4, <1>6, <1>13, DoneTraces, TaskNames
<1>14. CASE ReloadMigrated(c)
  <2> DEFINE r == [run[c] EXCEPT !.pc = "linkNext", !.previous = "legacy"]
  <2>1. /\ run' = [run EXCEPT ![c] = r] /\ device' = Reload(device) /\ Holding(c)
        /\ run[c].pc = "reload"
    BY <1>14 DEF ReloadMigrated, Exclusive, Types, Holding
  <2>2. StageInv(Reload(device), r)
    BY <2>1, Traced, MigratedStage
  <2> HIDE DEF r
  <2> QED
    BY <1>2, <2>1, <2>2, HolderTraces
<1> QED
  BY <1>7, <1>8, <1>9, <1>10, <1>11, <1>12, <1>13, <1>14 DEF Migrate

\* activate.yaml
LEMMA ActivateTraces ==
    ASSUME Exclusive, Traceable, NEW c \in Controllers, Activate(c)
    PROVE  Traceable'
<1> DEFINE next(link) == [device EXCEPT !.next = link]
           switched == [device EXCEPT !.current = device.next, !.next = "none"]
           dropped == [device EXCEPT !.override = FALSE]
           unlinked == [device EXCEPT !.current = "none"]
           back == IF run[c].action = "migrate" THEN "dropOverride" ELSE "recover"
           after == IF run[c].action = "migrate" THEN "dropLink" ELSE "cleanUp"
<1>1. /\ \A link : SourceInv(next(link))
      /\ SourceInv(switched) /\ SourceInv(dropped) /\ SourceInv(unlinked) /\ SourceInv(device)
      /\ SourceInv(Restart(device)) /\ SourceInv(Restart(Reload(device)))
  <2>1. /\ \A link : next(link).loaded = device.loaded /\ next(link).unit = device.unit
        /\ switched.loaded = device.loaded /\ switched.unit = device.unit
        /\ dropped.loaded = device.loaded /\ dropped.unit = device.unit
        /\ unlinked.loaded = device.loaded /\ unlinked.unit = device.unit
    BY Typed DEF Device
  <2> HIDE DEF next, switched, dropped, unlinked
  <2> QED
    BY <2>1, SourceBeside, SourceKnown, Traced
<1>2. ASSUME NEW r, Moved(r, run[c])
      PROVE  /\ run[c].pc = "linkNext" /\ r.pc = "switch" => StageInv(next(run[c].version), r)
             /\ run[c].pc = "switch" /\ r.pc = "restart" => StageInv(switched, r)
             /\ run[c].pc = "restart" /\ r.pc = "probe" => StageInv(Restart(device), r)
             /\ run[c].pc = "linkPrevious" /\ r.pc = "switchBack" =>
                  StageInv(next(run[c].previous), r)
             /\ run[c].pc = "switchBack" /\ r.pc = back => StageInv(switched, r)
             /\ run[c].pc = "dropOverride" /\ r.pc = "recover" => StageInv(dropped, r)
             /\ run[c].pc = "recover" /\ r.pc = "probePrevious" =>
                  StageInv(Restart(Reload(device)), r)
             /\ run[c].pc = "probePrevious" /\ r.pc = after => StageInv(device, r)
             /\ run[c].pc = "dropLink" /\ r.pc = "cleanUp" => StageInv(unlinked, r)
  BY <1>2, Traced, ActivateStages
<1>3. back \in Tasks /\ after \in Tasks
  BY TaskNames
<1>4. /\ LinkNext(c) => Done(c, "linkNext", "switch", next(run[c].version))
      /\ Switch(c) => Done(c, "switch", "restart", switched)
      /\ RestartService(c) => Done(c, "restart", "probe", Restart(device))
      /\ LinkPrevious(c) => Done(c, "linkPrevious", "switchBack", next(run[c].previous))
      /\ SwitchBack(c) => Done(c, "switchBack", back, switched)
      /\ DropOverride(c) => Done(c, "dropOverride", "recover", dropped)
      /\ Recover(c) => Done(c, "recover", "probePrevious", Restart(Reload(device)))
      /\ DropLink(c) => Done(c, "dropLink", "cleanUp", unlinked)
  BY DEF LinkNext, Switch, RestartService, LinkPrevious, SwitchBack, DropOverride, Recover, DropLink
<1>5. Probe(c) => \/ Answers /\ Finished(c, "probe", "succeeded")
                  \/ run[c].pc = "probe" /\ run' = FailedRun(c) /\ UNCHANGED device
  BY DEF Probe
<1>6. ProbePrevious(c) =>
        \/ Done(c, "probePrevious", after, device)
        \/ run[c].pc = "probePrevious" /\ run' = FailedRun(c) /\ UNCHANGED device
  BY DEF ProbePrevious, Assert
<1>7. \A from, to, d : Done(c, from, to, d) => run[c].pc = from
  BY DEF Done
<1> HIDE DEF next, switched, dropped, unlinked, back, after
<1>8. CASE LinkNext(c)
  BY <1>1, <1>2, <1>4, <1>7, <1>8, DoneTraces, TaskNames
<1>9. CASE Switch(c)
  BY <1>1, <1>2, <1>4, <1>7, <1>9, DoneTraces, TaskNames
<1>10. CASE RestartService(c)
  BY <1>1, <1>2, <1>4, <1>7, <1>10, DoneTraces, TaskNames
<1>11. CASE Probe(c)
  BY <1>5, <1>11, ProbedTraces, AssertTraces, TaskNames
<1>12. CASE LinkPrevious(c)
  BY <1>1, <1>2, <1>4, <1>7, <1>12, DoneTraces, TaskNames
<1>13. CASE SwitchBack(c)
  BY <1>1, <1>2, <1>3, <1>4, <1>7, <1>13, DoneTraces, TaskNames
<1>14. CASE DropOverride(c)
  BY <1>1, <1>2, <1>4, <1>7, <1>14, DoneTraces, TaskNames
<1>15. CASE Recover(c)
  BY <1>1, <1>2, <1>4, <1>7, <1>15, DoneTraces, TaskNames
<1>16. CASE ProbePrevious(c)
  BY <1>1, <1>2, <1>3, <1>6, <1>7, <1>16, DoneTraces, AssertTraces, TaskNames
<1>17. CASE DropLink(c)
  BY <1>1, <1>2, <1>4, <1>7, <1>17, DoneTraces, TaskNames
<1> QED
  BY <1>8, <1>9, <1>10, <1>11, <1>12, <1>13, <1>14, <1>15, <1>16, <1>17 DEF Activate

\* install.yaml
LEMMA InstallTraces ==
    ASSUME Exclusive, Traceable, NEW c \in Controllers, Install(c)
    PROVE  Traceable'
<1> DEFINE configured(b) == [device EXCEPT !.environment = b]
           linked == [device EXCEPT !.current = run[c].version]
           made == [device EXCEPT !.unit = "release"]
           removed == [device EXCEPT !.unit = "none", !.current = "none"]
           stopped == IF run[c].unitMade THEN Stop(Reload(device)) ELSE device
           found == device.environment /\ run[c].foundEnvironment
<1>1. /\ \A b : SourceInv(configured(b))
      /\ SourceInv(linked) /\ SourceInv(stopped)
      /\ SourceInv(Reload(device)) /\ SourceInv(Restart(Reload(device)))
  <2>1. /\ \A b : configured(b).loaded = device.loaded /\ configured(b).unit = device.unit
        /\ linked.loaded = device.loaded /\ linked.unit = device.unit
    BY Typed DEF Device
  <2> HIDE DEF configured, linked
  <2> QED
    BY <2>1, SourceBeside, SourceKnown, Traced
<1>2. run[c].pc \in Installing \cup UndoInstalling => SourceInv(made) /\ SourceInv(removed)
  BY Traced DEF StageInv, InstallingInv, SourceInv, Device
<1>3. ASSUME NEW r, Moved(r, run[c])
      PROVE  /\ run[c].pc = "environment" /\ r.pc = "link" => StageInv(configured(TRUE), r)
             /\ run[c].pc = "link" /\ r.pc = "unit" => StageInv(linked, r)
             /\ run[c].pc = "start" /\ r.pc = "firstProbe" =>
                  StageInv(Restart(Reload(device)), r)
             /\ run[c].pc = "stop" /\ r.pc = "removeUnit" => StageInv(stopped, r)
             /\ run[c].pc = "removeUnit" /\ r.pc = "removeEnvironment" => StageInv(removed, r)
             /\ run[c].pc = "removeEnvironment" /\ r.pc = "reloadWithout" =>
                  StageInv([device EXCEPT !.environment = @ /\ run[c].foundEnvironment], r)
             /\ run[c].pc = "reloadWithout" /\ r.pc = "cleanUp" => StageInv(Reload(device), r)
  BY <1>3, Traced, InstallStages
<1>4. [device EXCEPT !.environment = @ /\ run[c].foundEnvironment] = configured(found)
  BY Typed DEF Device
<1>5. /\ CreateEnvironment(c) => Done(c, "environment", "link", configured(TRUE))
      /\ Link(c) => Done(c, "link", "unit", linked)
      /\ StartService(c) => Done(c, "start", "firstProbe", Restart(Reload(device)))
      /\ StopService(c) => Done(c, "stop", "removeUnit", stopped)
      /\ RemoveUnit(c) => Done(c, "removeUnit", "removeEnvironment", removed)
      /\ ReloadWithout(c) => Done(c, "reloadWithout", "cleanUp", Reload(device))
  BY DEF CreateEnvironment, Link, StartService, StopService, RemoveUnit, ReloadWithout
<1>6. RemoveEnvironment(c) => Done(c, "removeEnvironment", "reloadWithout", configured(found))
  BY <1>4 DEF RemoveEnvironment
<1>7. FirstProbe(c) => \/ Answers /\ Finished(c, "firstProbe", "succeeded")
                       \/ run[c].pc = "firstProbe" /\ run' = FailedRun(c) /\ UNCHANGED device
  BY DEF FirstProbe
<1>8. \A from, to, d : Done(c, from, to, d) => run[c].pc = from
  BY DEF Done
<1> HIDE DEF configured, linked, removed, stopped, found
<1>9. CASE Inspect(c)
  <2> DEFINE r == [run[c] EXCEPT !.pc = "environment", !.foundEnvironment = device.environment]
  <2>1. /\ run[c].pc = "inspect" /\ Holding(c) /\ device' = device
        /\ \/ run' = [run EXCEPT ![c] = r] /\ device.unit = "none"
           \/ run' = FailedRun(c)
    BY <1>9 DEF Inspect, Exclusive, Types, Holding
  <2>2. device.unit = "none" => StageInv(device, r)
    BY <2>1, Traced, NotingStages
  <2> HIDE DEF r
  <2>3. CASE run' = [run EXCEPT ![c] = r] /\ device.unit = "none"
    BY <2>1, <2>2, <2>3, Traced, HolderTraces
  <2>4. CASE run' = FailedRun(c)
    BY <2>1, <2>4, AssertTraces, TaskNames
  <2> QED
    BY <2>1, <2>3, <2>4
<1>10. CASE InstallUnit(c)
  <2> DEFINE r == [run[c] EXCEPT !.pc = "start", !.unitMade = device.unit # "release"]
  <2>1. run[c].pc = "unit" /\ Holding(c) /\ run' = [run EXCEPT ![c] = r] /\ device' = made
    BY <1>10 DEF InstallUnit, Exclusive, Types, Holding
  <2>2. StageInv(made, r)
    BY <2>1, Traced, NotingStages
  <2>3. SourceInv(made)
    BY <1>2, <2>1 DEF Installing
  <2> HIDE DEF r, made
  <2> QED
    BY <2>1, <2>2, <2>3, HolderTraces
<1> HIDE DEF made
<1>11. CASE CreateEnvironment(c)
  BY <1>1, <1>3, <1>5, <1>8, <1>11, DoneTraces, TaskNames
<1>12. CASE Link(c)
  BY <1>1, <1>3, <1>5, <1>8, <1>12, DoneTraces, TaskNames
<1>13. CASE StartService(c)
  BY <1>1, <1>3, <1>5, <1>8, <1>13, DoneTraces, TaskNames
<1>14. CASE FirstProbe(c)
  BY <1>7, <1>14, ProbedTraces, AssertTraces, TaskNames
<1>15. CASE StopService(c)
  BY <1>1, <1>3, <1>5, <1>8, <1>15, DoneTraces, TaskNames
<1>16. CASE RemoveUnit(c)
  <2>1. run[c].pc = "removeUnit"
    BY <1>5, <1>8, <1>16
  <2>2. SourceInv(removed)
    BY <1>2, <2>1 DEF UndoInstalling
  <2> QED
    BY <1>3, <1>5, <1>16, <2>1, <2>2, DoneTraces, TaskNames
<1>17. CASE RemoveEnvironment(c)
  <2>1. run[c].pc = "removeEnvironment"
    BY <1>6, <1>8, <1>17
  <2>2. ASSUME NEW r, Moved(r, run[c]), r.pc = "reloadWithout"
        PROVE  StageInv(configured(found), r)
    BY <1>3, <1>4, <2>1, <2>2
  <2> QED
    BY <1>1, <1>6, <1>17, <2>2, DoneTraces, TaskNames
<1>18. CASE ReloadWithout(c)
  BY <1>1, <1>3, <1>5, <1>8, <1>18, DoneTraces, TaskNames
<1> QED
  BY <1>9, <1>10, <1>11, <1>12, <1>13, <1>14, <1>15, <1>16, <1>17, <1>18 DEF Install

\* main.yaml: what the run is to do is read and verified.
LEMMA ReadingTraces ==
    ASSUME Exclusive, Traceable, NEW c \in Controllers, ReadState(c) \/ Verify(c)
    PROVE  Traceable'
<1>1. CASE ReadState(c)
  <2>1. PICK view \in Views :
          LET fresh == run[c].action = "deploy" /\ view.loaded = "none" IN
          /\ device' = view
          /\ IF Valid(run[c].action, fresh, view)
               THEN run' = [run EXCEPT ![c].pc = IF run[c].action = "rollback"
                                                   THEN "verify" ELSE "stage",
                                       ![c].fresh = fresh, ![c].previous = view.current]
               ELSE run' = FailedRun(c)
    BY <1>1 DEF ReadState
  <2>2. /\ view = device \/ (device.loaded = "none" /\ view = Reload(device))
        /\ SourceInv(view) /\ run[c].pc = "read" /\ Holding(c)
    BY <1>1, SourceKnown, Traced DEF Views, ReadState, Holding
  <2> DEFINE fresh == run[c].action = "deploy" /\ view.loaded = "none"
             to == IF run[c].action = "rollback" THEN "verify" ELSE "stage"
  <2>3. CASE Valid(run[c].action, fresh, view)
    <3> DEFINE r == [run[c] EXCEPT !.pc = to, !.fresh = fresh, !.previous = view.current]
    <3>1. run' = [run EXCEPT ![c] = r]
      BY <2>1, <2>3 DEF Exclusive, Types
    <3>2. /\ r.pc = to /\ r.fresh = fresh /\ r.previous = view.current
          /\ r.before = run[c].before /\ r.action = run[c].action /\ r.outcome = run[c].outcome
          /\ r.unitMade = run[c].unitMade /\ r.version = run[c].version
      BY Typed DEF Run
    <3> HIDE DEF r
    <3>3. StageInv(view, r)
      BY <2>2, <2>3, <3>2, Traced, ReadStage
    <3> QED
      BY <2>1, <2>2, <3>1, <3>3, HolderTraces
  <2>4. CASE ~Valid(run[c].action, fresh, view)
    <3> DEFINE r == [run[c] EXCEPT !.pc = OnFailure(run[c].pc), !.outcome = OutcomeOf(run[c])]
    <3>1. run' = [run EXCEPT ![c] = r]
      BY <2>1, <2>4 DEF FailedRun, Exclusive, Types
    <3>2. OnFailure(run[c].pc) = "cleanUp" /\ OutcomeOf(run[c]) = "failed"
      BY <2>2 DEF OnFailure, OutcomeOf, Preparing, Migrating, Activating, Installing, Rescuing,
                  UndoMigrating, UndoActivating, UndoInstalling, Cleaning
    <3>3. r.pc = "cleanUp" /\ r.outcome = "failed" /\ r.before = run[c].before
      BY <3>2, Typed DEF Run
    <3> HIDE DEF r
    <3>4. StageInv(view, r)
      BY <2>2, <3>3, Traced, ReadStage
    <3> QED
      BY <2>1, <2>2, <3>1, <3>4, HolderTraces
  <2> QED
    BY <2>3, <2>4
<1>2. CASE Verify(c)
  <2> DEFINE to == CASE run[c].action = "migrate" -> "backUp"
                     [] run[c].fresh -> "inspect"
                     [] OTHER -> IF run[c].previous = run[c].version
                                   THEN "probe" ELSE "linkNext"
  <2>1. /\ run[c].pc = "verify"
        /\ \/ Done(c, "verify", to, device)
           \/ run' = FailedRun(c) /\ UNCHANGED device
    BY <1>2 DEF Verify, Assert
  <2>2. \A r : Moved(r, run[c]) /\ r.pc = to => StageInv(device, r)
    BY <2>1, Traced, NotingStages
  <2>3. to \in {"backUp", "inspect", "probe", "linkNext"}
    OBVIOUS
  <2> HIDE DEF to
  <2>4. to \in Tasks
    BY <2>3, TaskNames
  <2>5. CASE Done(c, "verify", to, device)
    BY <2>2, <2>4, <2>5, DoneTraces, Traced, TaskNames
  <2>6. CASE run' = FailedRun(c) /\ UNCHANGED device
    BY <2>1, <2>6, AssertTraces, TaskNames
  <2> QED
    BY <2>1, <2>5, <2>6
<1> QED
  BY <1>1, <1>2

\* A task that fails half done.
LEMMA FailTraces ==
    ASSUME Exclusive, Traceable, NEW c \in Controllers, Fail(c)
    PROVE  Traceable'
<1> DEFINE pc == run[c].pc
<1>1. pc \in Tasks /\ device' \in Halfway(c) /\ run' = FailedRun(c)
  BY DEF Fail
<1>2. Failing(device, device', pc)
  <2>1. /\ SameFiles(Stop(device), device) /\ Stop(device).loaded = device.loaded
        /\ SameFiles(Restart(device), device) /\ Restart(device).loaded = device.loaded
        /\ SameFiles(Reload(device), device) /\ Reload(device).loaded = Effective(device)
        /\ SameFiles(Stop(Reload(device)), device)
        /\ Stop(Reload(device)).loaded = Effective(device)
        /\ SameFiles(Restart(Reload(device)), device)
        /\ Restart(Reload(device)).loaded = Effective(device)
    BY Typed DEF SameFiles, Stop, Restart, Reload, Device
  <2> QED
    BY <1>1, <2>1 DEF Halfway, Failing, Rescuing, UndoInstalling, UndoActivating
<1>3. SourceInv(device')
  <2>1. CASE pc = "removeUnit"
    <3>1. device.loaded # "source"
      BY <2>1, Traced DEF StageInv, InstallingInv, UndoInstalling
    <3>2. device'.loaded = device.loaded
      BY <1>1, <2>1, Typed DEF Halfway, Device
    <3> QED
      BY <3>1, <3>2 DEF SourceInv
  <2>2. CASE pc # "removeUnit"
    BY <1>1, <2>2, Traced, SourceKnown DEF Halfway
  <2> QED
    BY <2>1, <2>2
<1> QED
  BY <1>1, <1>2, <1>3, FailedTraces

\* The lock, and what happens around a run.
LEMMA OtherTraces ==
    ASSUME Exclusive, Traceable, NEW c \in Controllers,
           StartRun(c) \/ Acquire(c) \/ Unlock(c) \/ RemoveLock(c) \/ Cut(c)
    PROVE  Traceable'
<1> DEFINE locked(b) == [device EXCEPT !.lock = b]
<1>1. \A b : /\ SameFiles(locked(b), device) /\ locked(b).loaded = device.loaded
             /\ locked(b).running = device.running /\ locked(b).next = device.next
  BY Typed DEF SameFiles, Device
<1>2. \A b : SourceInv(locked(b))
  BY <1>1, SourceBeside DEF SameFiles
<1>3. ASSUME NEW r, run' = [run EXCEPT ![c] = r], device' = device, r.pc \in {"idle", "lock"},
             ~r.unitMade
      PROVE  Traceable'
  <2>1. StageInv(device, r)
    BY <1>3, AwayStage
  <2> QED
    BY <1>3, <2>1 DEF Traceable, Exclusive, Types
<1>4. Idle.pc = "idle" /\ ~Idle.unitMade
  BY DEF Idle
<1>5. CASE StartRun(c)
  <2>1. PICK a \in {"deploy", "migrate", "rollback"}, v \in Versions :
          run' = [run EXCEPT ![c] = [Idle EXCEPT !.pc = "lock", !.action = a, !.version = v]]
    BY <1>5 DEF StartRun
  <2> DEFINE r == [Idle EXCEPT !.pc = "lock", !.action = a, !.version = v]
  <2>2. r.pc = "lock" /\ ~r.unitMade
    BY DEF Idle
  <2>3. run' = [run EXCEPT ![c] = r] /\ device' = device
    BY <1>5, <2>1 DEF StartRun
  <2> HIDE DEF r
  <2> QED
    BY <1>3, <2>2, <2>3
<1>6. CASE Acquire(c) /\ device.lock
  BY <1>3, <1>4, <1>6 DEF Acquire
<1>7. CASE Acquire(c) /\ ~device.lock
  <2> DEFINE r == [run[c] EXCEPT !.pc = "read", !.before = device]
  <2>1. run' = [run EXCEPT ![c] = r] /\ device' = locked(TRUE) /\ run[c].pc = "lock"
    BY <1>7 DEF Acquire, Exclusive, Types
  <2>2. r.pc = "read" /\ r.unitMade = run[c].unitMade /\ r.before = device
    BY Typed DEF Run
  <2> HIDE DEF r, locked
  <2>3. StageInv(locked(TRUE), r)
    BY <1>1, <2>1, <2>2, Traced, NotingStages
  <2>4. \A o \in Controllers : ~Holding(o)
    BY <1>7 DEF Exclusive, OneDeployment
  <2>5. ASSUME NEW o \in Controllers, o # c
        PROVE  StageInv(device', run'[o])
    <3>1. run'[o] = run[o] /\ run[o].pc \in {"idle", "lock"}
      BY <2>1, <2>4, <2>5 DEF Exclusive, Types, Holding
    <3>2. run[o].pc = "lock" => ~run[o].unitMade
      BY DEF Traceable, StageInv, OutcomeInv
    <3> QED
      BY <3>1, <3>2, AwayStage
  <2>6. run'[c] = r
    BY <2>1 DEF Exclusive, Types
  <2> QED
    BY <1>2, <2>1, <2>3, <2>5, <2>6 DEF Traceable
<1>8. CASE Unlock(c) \/ RemoveLock(c)
  <2>1. run' = [run EXCEPT ![c] = Idle] /\ device' = locked(FALSE) /\ Holding(c)
    BY <1>8 DEF Unlock, RemoveLock, Holding
  <2>2. StageInv(device', Idle)
    BY <1>4, AwayStage
  <2> HIDE DEF locked
  <2> QED
    BY <1>2, <2>1, <2>2, HolderTraces
<1>9. CASE Cut(c)
  <2> DEFINE r == [run[c] EXCEPT !.pc = "cut"]
  <2>1. run' = [run EXCEPT ![c] = r] /\ device' = device /\ Holding(c)
    BY <1>9, TaskNames DEF Cut, Exclusive, Types, Holding
  <2>2. r.pc = "cut"
    BY Typed DEF Run
  <2> HIDE DEF r
  <2>3. StageInv(device, r)
    BY <2>2, AwayStage
  <2> QED
    BY <2>1, <2>3, Traced, HolderTraces
<1> QED
  BY <1>5, <1>6, <1>7, <1>8, <1>9

\* At the start nothing is expected of the device, whatever it is.
LEMMA TraceableInit ==
    ASSUME Init
    PROVE  Traceable
<1>1. \A c \in Controllers : StageInv(device, run[c])
  <2>1. Idle.pc = "idle"
    BY DEF Idle
  <2>2. StageInv(device, Idle)
    BY <2>1, AwayStage
  <2> QED
    BY <2>2 DEF Init
<1>2. SourceInv(device)
  <2>1. Bare.loaded = "none"
    BY DEF Bare
  <2> DEFINE sourced == [Bare EXCEPT !.unit = "source", !.loaded = "source",
                                     !.running = "source"]
             configured == [Bare EXCEPT !.environment = TRUE]
  <2>2. SourceInv(sourced) /\ SourceInv(configured) /\ SourceInv(Bare)
    BY <2>1, BareIsDevice DEF SourceInv, Device
  <2>3. ASSUME NEW v \in Versions \ Broken,
               device = [Bare EXCEPT !.releases[v] = "complete", !.current = v,
                                     !.unit = "release", !.environment = TRUE,
                                     !.loaded = "release", !.running = v]
        PROVE  SourceInv(device)
    BY <2>3, BareIsDevice DEF SourceInv, Device
  <2> HIDE DEF sourced, configured
  <2> QED
    BY <2>2, <2>3 DEF Init, Devices, sourced, configured
<1> QED
  BY <1>1, <1>2 DEF Traceable

\* Every step of a run leaves what its rescue or its end will need.
LEMMA TraceableStep ==
    ASSUME Exclusive, Traceable, [Next]_vars
    PROVE  Traceable'
<1>1. ASSUME NEW c \in Controllers, Perform(c)
      PROVE  Traceable'
  BY <1>1, ReadingTraces, StagingTraces, MigrateTraces, ActivateTraces, InstallTraces,
     OtherTraces DEF Perform
<1>2. ASSUME NEW c \in Controllers, StartRun(c) \/ Fail(c) \/ Cut(c) \/ RemoveLock(c)
      PROVE  Traceable'
  BY <1>2, FailTraces, OtherTraces
<1>3. CASE Respawn
  <2>1. device.running # "none" /\ device' = Restart(device) /\ run' = run
    BY <1>3 DEF Respawn
  <2>2. \A c \in Controllers : StageInv(Restart(device), run[c])
    BY <2>1, RespawnStage, Traced
  <2>3. SourceInv(Restart(device))
    BY SourceKnown DEF Traceable, Exclusive, Types
  <2> QED
    BY <2>1, <2>2, <2>3 DEF Traceable
<1>4. CASE UNCHANGED vars
  BY <1>4 DEF vars, Traceable
<1> QED
  BY <1>1, <1>2, <1>3, <1>4 DEF Next

LEMMA TracesAlways == Spec => [](Exclusive /\ Traceable)
<1>1. Init => Exclusive /\ Traceable
  BY ExclusiveInit, TraceableInit
<1>2. Exclusive /\ Traceable /\ [Next]_vars => (Exclusive /\ Traceable)'
  BY ExclusiveStep, TraceableStep
<1> QED
  BY <1>1, <1>2, PTL DEF Spec

\* For any number of controllers, runs, failed tasks and lost connections, and wherever
\* the service crashes: a run that failed and took back its work leaves links, unit,
\* override and configuration as they were found, and a service that belongs to them
\* (activate.yaml:39-105, install.yaml:69-126, migrate.yaml:41-63).
THEOREM FailedRunsRestore == Spec => []FailedRunRestores
<1>1. Exclusive /\ Traceable => FailedRunRestores
  <2> SUFFICES ASSUME Exclusive, Traceable, NEW c \in Controllers,
                      run[c].pc = "cleanUp", run[c].outcome = "failed"
               PROVE  LET before == run[c].before IN
                      /\ device.current = before.current /\ device.unit = before.unit
                      /\ device.override = before.override
                      /\ device.environment = before.environment
                      /\ device.loaded \in {before.loaded, Effective(before)}
                      /\ Program(device.running) \in
                           {Program(d.running) :
                              d \in {before, Restart(before), Restart(Reload(before))}}
    BY DEF FailedRunRestores
  <2> DEFINE b == run[c].before
  <2>1. Restored(device, b)
    BY Traced DEF StageInv, OutcomeInv
  <2>2. b \in Device
    BY Typed DEF Run
  <2> HIDE DEF b
  <2>3. Restart(b).running = Target(b) /\ Restart(Reload(b)).running = Reloaded(b)
    BY <2>2 DEF Restart, Reload, Target, Reloaded, Effective, Device
  <2>4. Program(device.running) \in
          {Program(d.running) : d \in {b, Restart(b), Restart(Reload(b))}}
    BY <2>1, <2>3 DEF Restored, RunsAs
  <2> QED
    BY <2>1, <2>4 DEF Restored, SameFiles, b
<1> QED
  BY <1>1, TracesAlways, PTL

\* A run that succeeded has linked the requested release, systemd has loaded its unit,
\* and it answers: unless the service ran something else than what was linked when the
\* run began, and the run found the release active (activate.yaml:15-38).
THEOREM SuccessfulRunsSucceed == Spec => []SuccessRunsRequested
<1>1. Exclusive /\ Traceable => SuccessRunsRequested
  BY Traced DEF SuccessRunsRequested, StageInv, OutcomeInv, Succeeded
<1> QED
  BY <1>1, TracesAlways, PTL

-----------------------------------------------------------------------------
(* What a run may remove.                                                  *)

\* What is gone after a step was not there before the run.
OwnOnly(d, e, b) ==
    /\ d.current # "none" /\ e.current = "none" => b.current = "none"
    /\ d.unit # "none" /\ e.unit = "none" => b.unit = "none"
    /\ d.override /\ ~e.override => ~b.override
    /\ d.environment /\ ~e.environment => ~b.environment

\* What systemd does leaves the files alone.
LEMMA ServiceFiles ==
    ASSUME NEW d \in Device
    PROVE  /\ SameFiles(d, d) /\ SameFiles(Reload(d), d) /\ SameFiles(Stop(d), d)
           /\ SameFiles(Restart(d), d) /\ SameFiles(Stop(Reload(d)), d)
           /\ SameFiles(Restart(Reload(d)), d)
BY DEF SameFiles, Reload, Stop, Restart, Device

\* Tasks that have nothing to do with the files.
LEMMA BesideRemovals ==
    ASSUME Exclusive, NEW c \in Controllers,
           \/ Acquire(c) \/ ReadState(c) \/ Verify(c) \/ CleanUp(c) \/ Unlock(c)
           \/ Stage(c) \/ Extract(c) \/ Publish(c) \/ BackUp(c) \/ Preserve(c)
           \/ ReloadMigrated(c) \/ ReloadOriginal(c) \/ LinkNext(c) \/ RestartService(c)
           \/ Probe(c) \/ LinkPrevious(c) \/ Recover(c) \/ ProbePrevious(c) \/ Inspect(c)
           \/ StartService(c) \/ FirstProbe(c) \/ StopService(c) \/ ReloadWithout(c)
    PROVE  SameFiles(device', device)
<1> DEFINE v == run[c].version
<1>1. /\ \A b : SameFiles([device EXCEPT !.lock = b], device)
      /\ \A content : SameFiles([device EXCEPT !.staging[c] = content], device)
      /\ \A content : SameFiles([device EXCEPT !.releases["legacy"] = content], device)
      /\ \A link : SameFiles([device EXCEPT !.next = link], device)
      /\ SameFiles([device EXCEPT !.releases[v] = device.staging[c],
                                  !.staging[c] = "absent"], device)
  BY Typed DEF SameFiles, Device
<1>2. /\ SameFiles(device, device) /\ SameFiles(Reload(device), device)
      /\ SameFiles(Stop(device), device) /\ SameFiles(Restart(device), device)
      /\ SameFiles(Stop(Reload(device)), device) /\ SameFiles(Restart(Reload(device)), device)
  BY Typed, ServiceFiles
<1>3. CASE Acquire(c) \/ Unlock(c)
  BY <1>1, <1>2, <1>3 DEF Acquire, Unlock
<1>4. CASE ReadState(c) \/ Verify(c) \/ Inspect(c)
  BY <1>2, <1>4 DEF ReadState, Views, Verify, Inspect, Assert, Done
<1>5. CASE Stage(c) \/ Extract(c) \/ CleanUp(c)
  BY <1>1, <1>5 DEF Stage, Extract, CleanUp, Done
<1>6. CASE Publish(c)
  BY <1>1, <1>2, <1>6 DEF Publish, Assert, Done
<1>7. CASE BackUp(c) \/ Preserve(c)
  BY <1>1, <1>2, <1>7 DEF BackUp, Preserve, Assert, Done
<1>8. CASE ReloadMigrated(c) \/ ReloadOriginal(c) \/ ReloadWithout(c)
  BY <1>2, <1>8 DEF ReloadMigrated, ReloadOriginal, ReloadWithout, Done
<1>9. CASE LinkNext(c) \/ LinkPrevious(c)
  BY <1>1, <1>9 DEF LinkNext, LinkPrevious, Done
<1>10. CASE RestartService(c) \/ Recover(c) \/ StartService(c)
  BY <1>2, <1>10 DEF RestartService, Recover, StartService, Done
<1>11. CASE Probe(c) \/ ProbePrevious(c) \/ FirstProbe(c)
  BY <1>2, <1>11 DEF Probe, ProbePrevious, FirstProbe, Finished, Assert, Done
<1>12. CASE StopService(c)
  BY <1>2, <1>12 DEF StopService, Done
<1> QED
  BY <1>3, <1>4, <1>5, <1>6, <1>7, <1>8, <1>9, <1>10, <1>11, <1>12

\* Tasks that make or replace a file, and those that remove one.
LEMMA FileRemovals ==
    ASSUME Exclusive, Traceable, LinksSafe, NEW c \in Controllers,
           \/ LinkLegacy(c) \/ Override(c) \/ RemoveOverride(c) \/ RemoveLegacyLink(c)
           \/ Switch(c) \/ SwitchBack(c) \/ DropOverride(c) \/ DropLink(c)
           \/ CreateEnvironment(c) \/ Link(c) \/ InstallUnit(c) \/ RemoveUnit(c)
           \/ RemoveEnvironment(c)
    PROVE  Holding(c) /\ OwnOnly(device, device', run[c].before)
<1> DEFINE b == run[c].before
<1>1. /\ device \in Device /\ StageInv(device, run[c]) /\ "none" \notin Directories
      /\ run[c].pc # "idle" => run[c].version # "none"
  BY Traced, LinksTyped DEF RunInv
<1>2. CASE LinkLegacy(c)
  BY <1>1, <1>2 DEF LinkLegacy, Done, OwnOnly, Device, Holding
<1>3. CASE Override(c)
  BY <1>1, <1>3 DEF Override, Done, OwnOnly, Device, Holding
<1>4. CASE RemoveOverride(c)
  <2>1. run[c].pc = "removeOverride" /\ device' = [device EXCEPT !.override = FALSE]
    BY <1>4 DEF RemoveOverride, Done
  <2>2. ~b.override
    BY <1>1, <2>1
    DEF StageInv, KindInv, Tasks, Rescuing, UndoMigrating, Preserves, Migrating, Cleaning
  <2> QED
    BY <1>1, <2>1, <2>2 DEF OwnOnly, Device, Holding
<1>5. CASE RemoveLegacyLink(c) \/ DropLink(c)
  <2>1. /\ run[c].pc \in {"removeLegacyLink", "dropLink"}
        /\ device' = [device EXCEPT !.current = "none"]
    BY <1>5 DEF RemoveLegacyLink, DropLink, Done
  <2>2. b.current = "none"
    BY <1>1, <2>1
    DEF StageInv, KindInv, Tasks, Rescuing, UndoMigrating, UndoActivating, Preserves, Migrating,
        Cleaning
  <2> QED
    BY <1>1, <2>1, <2>2 DEF OwnOnly, Device, Holding
<1>6. CASE Switch(c) \/ SwitchBack(c)
  <2>1. /\ run[c].pc \in {"switch", "switchBack"}
        /\ device' = [device EXCEPT !.current = device.next, !.next = "none"]
    BY <1>6 DEF Switch, SwitchBack, Done
  <2>2. device.next = IF run[c].pc = "switch" THEN run[c].version ELSE run[c].previous
    BY <1>1, <2>1 DEF StageInv, ActivatingInv, Activating, UndoActivating
  <2>3. run[c].pc = "switchBack" => run[c].previous # "none"
    BY <1>1
    DEF StageInv, KindInv, Tasks, Rescuing, UndoActivating, Preserves, Migrating, Cleaning
  <2> QED
    BY <1>1, <2>1, <2>2, <2>3 DEF OwnOnly, Device, Holding
<1>7. CASE DropOverride(c)
  <2>1. run[c].pc = "dropOverride" /\ device' = [device EXCEPT !.override = FALSE]
    BY <1>7 DEF DropOverride, Done
  <2>2. ~b.override
    BY <1>1, <2>1
    DEF StageInv, KindInv, Tasks, Rescuing, UndoActivating, Preserves, Migrating, Cleaning
  <2> QED
    BY <1>1, <2>1, <2>2 DEF OwnOnly, Device, Holding
<1>8. CASE CreateEnvironment(c)
  BY <1>1, <1>8 DEF CreateEnvironment, Done, OwnOnly, Device, Holding
<1>9. CASE Link(c)
  BY <1>1, <1>9 DEF Link, Done, OwnOnly, Device, Holding
<1>10. CASE InstallUnit(c)
  BY <1>1, <1>10 DEF InstallUnit, OwnOnly, Device, Holding
<1>11. CASE RemoveUnit(c)
  <2>1. /\ run[c].pc = "removeUnit"
        /\ device' = [device EXCEPT !.unit = "none", !.current = "none"]
    BY <1>11 DEF RemoveUnit, Done
  <2>2. b.unit = "none" /\ b.current = "none"
    BY <1>1, <2>1
    DEF StageInv, KindInv, InstallingInv, Tasks, Rescuing, UndoInstalling, Cleaning
  <2> QED
    BY <1>1, <2>1, <2>2 DEF OwnOnly, Device, Holding
<1>12. CASE RemoveEnvironment(c)
  <2>1. /\ run[c].pc = "removeEnvironment"
        /\ device' = [device EXCEPT !.environment = @ /\ run[c].foundEnvironment]
    BY <1>12 DEF RemoveEnvironment, Done
  <2>2. run[c].foundEnvironment = b.environment
    BY <1>1, <2>1 DEF StageInv, InstallingInv, UndoInstalling
  <2> QED
    BY <1>1, <2>1, <2>2 DEF OwnOnly, Device, Holding
<1> QED
  BY <1>2, <1>3, <1>4, <1>5, <1>6, <1>7, <1>8, <1>9, <1>10, <1>11, <1>12

\* A task that fails half done.
LEMMA FailRemovals ==
    ASSUME Exclusive, Traceable, NEW c \in Controllers, Fail(c)
    PROVE  Holding(c) /\ OwnOnly(device, device', run[c].before)
<1>1. run[c].pc \in Tasks /\ device' \in Halfway(c) /\ Holding(c)
  BY TaskNames DEF Fail, Holding
<1>2. CASE run[c].pc = "removeUnit"
  <2>1. device' \in {device, [device EXCEPT !.unit = "none"], [device EXCEPT !.current = "none"]}
    BY <1>1, <1>2 DEF Halfway
  <2>2. run[c].before.unit = "none" /\ run[c].before.current = "none"
    BY <1>2, Traced
    DEF StageInv, KindInv, InstallingInv, Tasks, Rescuing, UndoInstalling, Cleaning
  <2> QED
    BY <1>1, <2>1, <2>2, Typed DEF OwnOnly, Device
<1>3. CASE run[c].pc # "removeUnit"
  <2>1. SameFiles(device', device)
    BY <1>1, <1>3, Typed, ServiceFiles DEF Halfway
  <2> QED
    BY <1>1, <2>1 DEF OwnOnly, SameFiles
<1> QED
  BY <1>2, <1>3

\* No step of any run removes what it has not made: a link, unit, override or
\* configuration that was there when the lock was taken is never missing, not between
\* two tasks, not after one that failed half done (activate.yaml:15-23,
\* install.yaml:84-116, migrate.yaml:41-63).
THEOREM RunsRemoveOnlyTheirOwn == Spec => RemovesOnlyItsOwn
<1> DEFINE Own == \A f \in {"current", "unit", "override", "environment"} :
             device[f] # Bare[f] /\ device'[f] = Bare[f] =>
                 \E c \in Controllers : Holding(c) /\ run[c].before[f] = Bare[f]
<1>1. ASSUME Exclusive, SameFiles(device', device)
      PROVE  Own
  BY <1>1 DEF SameFiles
<1>2. ASSUME Exclusive, NEW c \in Controllers, Holding(c), Types',
             OwnOnly(device, device', run[c].before)
      PROVE  Own
  <2>1. /\ Bare.current = "none" /\ Bare.unit = "none"
        /\ Bare.override = FALSE /\ Bare.environment = FALSE
    BY DEF Bare
  <2>2. device \in Device /\ device' \in Device /\ run[c].before \in Device
    BY <1>2, Typed DEF Types, Run
  <2>3. device.current # Bare.current /\ device'.current = Bare.current =>
          run[c].before.current = Bare.current
    BY <1>2, <2>1 DEF OwnOnly
  <2>4. device.unit # Bare.unit /\ device'.unit = Bare.unit => run[c].before.unit = Bare.unit
    BY <1>2, <2>1 DEF OwnOnly
  <2>5. device.override # Bare.override /\ device'.override = Bare.override =>
          run[c].before.override = Bare.override
    BY <1>2, <2>1, <2>2 DEF OwnOnly, Device
  <2>6. device.environment # Bare.environment /\ device'.environment = Bare.environment =>
          run[c].before.environment = Bare.environment
    BY <1>2, <2>1, <2>2 DEF OwnOnly, Device
  <2> QED
    BY <1>2, <2>3, <2>4, <2>5, <2>6
<1>3. ASSUME Exclusive, Traceable, LinksSafe, [Next]_vars
      PROVE  Own
  <2>1. Types'
    BY <1>3, ExclusiveStep DEF Exclusive
  <2> HIDE DEF Own
  <2>2. ASSUME NEW c \in Controllers, Perform(c)
        PROVE  Own
    <3>1. \/ SameFiles(device', device)
          \/ Holding(c) /\ OwnOnly(device, device', run[c].before)
      BY <1>3, <2>2, BesideRemovals, FileRemovals DEF Perform, Migrate, Activate, Install
    <3> QED
      BY <1>1, <1>2, <1>3, <2>1, <3>1
  <2>3. ASSUME NEW c \in Controllers, Fail(c)
        PROVE  Own
    BY <1>2, <1>3, <2>1, <2>3, FailRemovals
  <2>4. ASSUME NEW c \in Controllers, StartRun(c) \/ Cut(c) \/ RemoveLock(c)
        PROVE  Own
    <3>1. SameFiles([device EXCEPT !.lock = FALSE], device) /\ SameFiles(device, device)
      BY <1>3, Typed DEF SameFiles, Device
    <3>2. SameFiles(device', device)
      BY <2>4, <3>1 DEF StartRun, Cut, RemoveLock
    <3> QED
      BY <1>1, <1>3, <3>2
  <2>5. CASE Respawn \/ UNCHANGED vars
    <3>1. SameFiles(device', device)
      BY <1>3, <2>5, ServiceFiles DEF Respawn, vars, Exclusive, Types
    <3> QED
      BY <1>1, <1>3, <3>1
  <2> QED
    BY <1>3, <2>2, <2>3, <2>4, <2>5 DEF Next
<1>4. Exclusive /\ Traceable /\ LinksSafe /\ [Next]_vars => [Own]_vars
  BY <1>3
<1> QED
  BY <1>4, TracesAlways, LinksAlways, PTL DEF Spec, RemovesOnlyItsOwn
=============================================================================
