----------------------------- MODULE MonitorProofs -----------------------------
(***************************************************************************)
(* Theorems about the availability check, for all timeouts, periods and    *)
(* restarts: what it publishes is complete, founded and recent, whenever   *)
(* it is stopped. That it is never late needs its timeouts to fit.         *)
(***************************************************************************)
EXTENDS Monitor, TLAPS

USE MonitorAssumption

Samples == [active : 0..1, grpc : 0..1, count : Nat \cup {Unread}]

Types ==
    /\ service \in {"up", "deaf", "down"} /\ restarts \in Nat
    /\ phase \in {"waiting"} \cup Commands \cup Publishing
    /\ since \in Nat /\ spent \in Nat /\ age \in Nat
    /\ sample \in Samples

\* Only a temporary file that was written to its end replaces the published one.
FileInv == file # "empty" /\ (phase = "replace" => temp = "whole")

\* The history holds what is the case and what the sample claims, from the first
\* moment of a check; a check begins without a sample.
FoundedInv ==
    /\ Running => Facts \subseteq seen /\ Claims \subseteq seen
    /\ ~Running => sample = NoSample

\* How much of a check may have passed when a command begins.
Before(command) ==
    CASE command = "isActive" -> 0
      [] command = "probe"    -> Timeout
      [] command = "show"     -> Timeout + Limit("probe")
      [] OTHER                -> Longest

\* The time of a check is that of the commands before and of the one at hand.
ClockInv ==
    /\ phase \in Commands => spent <= Limit(phase) /\ since <= Before(phase) + spent
    /\ phase \in Publishing => since <= Longest

\* After a check that published, the published time is no older than the check and no
\* older than a period; it ages together with the next check.
AgeInv ==
    file # "none" /\ disturbance = "none" =>
        IF phase \in {"waiting", "unlink"} THEN age <= since /\ age <= Period + Accuracy
        ELSE age <= Period + Accuracy + since

-----------------------------------------------------------------------------
(* Lemmas.                                                                 *)

\* The limits of the commands are lengths of time.
LEMMA LimitTypes ==
    /\ \A command : Limit(command) \in Nat /\ Limit(command) <= Timeout
    /\ Limit("isActive") = Timeout /\ Limit("show") = Timeout
    /\ Longest \in Nat /\ Oldest \in Nat
BY DEF Limit, Longest, Oldest

\* A sample without an answer claims nothing, and one more answer one more fact.
LEMMA ClaimsOf ==
    ASSUME sample \in Samples, NEW v \in {"active", "grpc", "count"},
           NEW answer \in Nat \cup {Unread}, sample' = [sample EXCEPT ![v] = answer]
    PROVE  \A f \in Claims' : f \in Claims \/ f = <<v, answer>>
BY DEF Claims, Samples

LEMMA NoClaims == sample = NoSample => Claims = {}
BY DEF Claims, NoSample

LEMMA TypesAlways == Spec => []Types
<1>1. Init => Types
  BY DEF Init, Types, Samples, NoSample
<1>2. Types /\ [Next]_vars => Types'
  <2> SUFFICES ASSUME Types, [Next]_vars PROVE Types'
    OBVIOUS
  <2> USE DEF Types, Commands, Publishing, Enter, checkVars, fileVars
  <2>1. CASE Change BY <2>1 DEF Change
  <2>2. CASE Begin BY <2>2 DEF Begin
  <2>3. CASE IsActive BY <2>3 DEF IsActive, Samples
  <2>4. CASE Probe BY <2>4 DEF Probe, Samples
  <2>5. CASE Show BY <2>5 DEF Show, Samples
  <2>6. CASE Create \/ Write \/ Replace \/ CannotPublish
    BY <2>6 DEF Create, Write, Replace, CannotPublish
  <2>7. CASE Unlink \/ Kill
    BY <2>7 DEF Unlink, Kill, End, NoSample, Samples
  <2>8. CASE Tick BY <2>8 DEF Tick
  <2>9. CASE UNCHANGED vars BY <2>9 DEF vars
  <2> QED
    BY <2>1, <2>2, <2>3, <2>4, <2>5, <2>6, <2>7, <2>8, <2>9 DEF Next, Check
<1> QED
  BY <1>1, <1>2, PTL DEF Spec

-----------------------------------------------------------------------------
(* What is published.                                                      *)

\* Readers never see a file that is only partly written, wherever a check fails or
\* is killed (led-service-check.py:59).
THEOREM SnapshotIsComplete == Spec => []SnapshotComplete
<1>1. Init => FileInv
  BY DEF Init, FileInv
<1>2. FileInv /\ [Next]_vars => FileInv'
  <2> SUFFICES ASSUME FileInv, [Next]_vars PROVE FileInv'
    OBVIOUS
  <2> USE DEF FileInv
  <2>1. CASE Change BY <2>1 DEF Change, checkVars, fileVars
  <2>2. CASE Begin \/ IsActive \/ Probe \/ Show
    BY <2>2 DEF Begin, IsActive, Probe, Show, Enter, fileVars
  <2>3. CASE Create \/ Write \/ Replace \/ CannotPublish
    BY <2>3 DEF Create, Write, Replace, CannotPublish, Enter
  <2>4. CASE Unlink \/ Kill BY <2>4 DEF Unlink, Kill, End
  <2>5. CASE Tick BY <2>5 DEF Tick
  <2>6. CASE UNCHANGED vars BY <2>6 DEF vars
  <2> QED
    BY <2>1, <2>2, <2>3, <2>4, <2>5, <2>6 DEF Next, Check
<1>3. FileInv => SnapshotComplete
  BY DEF FileInv, SnapshotComplete
<1> QED
  BY <1>1, <1>2, <1>3, PTL DEF Spec

\* A step of the check leaves the facts alone; what it adds to the sample is one of
\* them, or claims nothing.
LEMMA SamplingFounded ==
    ASSUME Types, FoundedInv, IsActive \/ Probe \/ Show
    PROVE  FoundedInv'
<1> USE DEF Types, FoundedInv
<1>1. Running /\ Running'
  BY DEF IsActive, Probe, Show, Enter, Running
<1>2. Facts' = Facts /\ seen' = seen
  BY DEF IsActive, Probe, Show, Facts
<1>3. CASE IsActive
  <2>1. PICK answer \in 0..1 : /\ answer = 1 => service # "down"
                               /\ sample' = [sample EXCEPT !.active = answer]
    BY <1>3 DEF IsActive
  <2>2. \A f \in Claims' : f \in Claims \/ f = <<"active", answer>>
    BY <2>1, ClaimsOf
  <2>3. answer = 1 => <<"active", 1>> \in Facts
    BY <2>1 DEF Facts
  <2>4. <<"active", 0>> \notin Claims'
    BY DEF Claims
  <2> QED
    BY <1>1, <1>2, <2>1, <2>2, <2>3, <2>4
<1>4. CASE Probe
  <2>1. PICK answer \in 0..1 : /\ answer = 1 => service = "up"
                               /\ sample' = [sample EXCEPT !.grpc = answer]
    BY <1>4 DEF Probe
  <2>2. \A f \in Claims' : f \in Claims \/ f = <<"grpc", answer>>
    BY <2>1, ClaimsOf
  <2>3. answer = 1 => <<"grpc", 1>> \in Facts
    BY <2>1 DEF Facts
  <2>4. <<"grpc", 0>> \notin Claims'
    BY DEF Claims
  <2> QED
    BY <1>1, <1>2, <2>1, <2>2, <2>3, <2>4
<1>5. CASE Show
  <2>1. PICK count \in {Unread, restarts} : sample' = [sample EXCEPT !.count = count]
    BY <1>5 DEF Show
  <2>2. \A f \in Claims' : f \in Claims \/ f = <<"count", count>>
    BY <2>1, ClaimsOf
  <2>3. <<"count", restarts>> \in Facts
    BY DEF Facts
  <2>4. <<"count", Unread>> \notin Claims'
    BY DEF Claims
  <2> QED
    BY <1>1, <1>2, <2>1, <2>2, <2>3, <2>4
<1> QED
  BY <1>3, <1>4, <1>5

\* What is published was the case while the check was at it, however the service
\* fails, hangs and is started again between the three questions.
THEOREM PublishedIsFounded == Spec => []SampleFounded
<1>1. Init => FoundedInv
  BY DEF Init, FoundedInv, Running
<1>2. Types /\ FoundedInv /\ [Next]_vars => FoundedInv'
  <2> SUFFICES ASSUME Types, FoundedInv, [Next]_vars PROVE FoundedInv'
    OBVIOUS
  <2>1. CASE Change
    <3>1. /\ UNCHANGED <<phase, sample>>
          /\ seen' = IF Running THEN seen \cup Facts \cup Facts' ELSE seen
      BY <2>1 DEF Change, checkVars
    <3>2. Claims' = Claims /\ Running' = Running
      BY <3>1 DEF Claims, Running
    <3> QED
      BY <3>1, <3>2 DEF FoundedInv
  <2>2. CASE Begin
    <3>1. Facts' = Facts /\ seen' = Facts /\ sample' = sample /\ Running' /\ ~Running
      BY <2>2 DEF Begin, Facts, Running
    <3>2. Claims' = Claims /\ Claims = {}
      BY <3>1, NoClaims DEF FoundedInv, Claims
    <3> QED
      BY <3>1, <3>2 DEF FoundedInv
  <2>3. CASE IsActive \/ Probe \/ Show
    BY <2>3, SamplingFounded
  <2>4. CASE Create \/ Write \/ Replace \/ CannotPublish \/ Tick \/ UNCHANGED vars
    <3>1. UNCHANGED <<service, restarts, sample, seen>> /\ Running' = Running
      BY <2>4 DEF Create, Write, Replace, CannotPublish, Enter, Tick, vars, Running
    <3>2. Facts' = Facts /\ Claims' = Claims
      BY <3>1 DEF Facts, Claims
    <3> QED
      BY <3>1, <3>2 DEF FoundedInv
  <2>5. CASE Unlink \/ Kill
    BY <2>5 DEF Unlink, Kill, End, FoundedInv, Running
  <2> QED
    BY <2>1, <2>2, <2>3, <2>4, <2>5 DEF Next, Check
<1>3. FoundedInv => SampleFounded
  BY DEF FoundedInv, SampleFounded, Running, Publishing
<1> QED
  BY <1>1, <1>2, <1>3, TypesAlways, PTL DEF Spec

-----------------------------------------------------------------------------
(* Time.                                                                   *)

\* A check takes no longer than its three commands may.
LEMMA ClockAlways == Spec => []ClockInv
<1>1. Init => ClockInv
  BY DEF Init, ClockInv, Commands, Publishing
<1>2. Types /\ ClockInv /\ [Next]_vars => ClockInv'
  <2> SUFFICES ASSUME Types, ClockInv, [Next]_vars PROVE ClockInv'
    OBVIOUS
  <2> USE LimitTypes DEF Types, ClockInv, Commands, Publishing, Before
  <2>1. CASE Change BY <2>1 DEF Change, checkVars
  <2>2. CASE Begin BY <2>2 DEF Begin
  <2>3. CASE IsActive BY <2>3 DEF IsActive, Enter
  <2>4. CASE Probe BY <2>4 DEF Probe, Enter
  <2>5. CASE Show BY <2>5 DEF Show, Enter, Longest
  <2>6. CASE Create \/ Write \/ Replace \/ CannotPublish
    BY <2>6 DEF Create, Write, Replace, CannotPublish, Enter
  <2>7. CASE Unlink \/ Kill BY <2>7 DEF Unlink, Kill, End
  <2>8. CASE Tick BY <2>8 DEF Tick
  <2>9. CASE UNCHANGED vars BY <2>9 DEF vars
  <2> QED
    BY <2>1, <2>2, <2>3, <2>4, <2>5, <2>6, <2>7, <2>8, <2>9 DEF Next, Check
<1> QED
  BY <1>1, <1>2, TypesAlways, PTL DEF Spec

LEMMA ClockBound ==
    ASSUME Types, ClockInv, Running PROVE since <= Longest
BY LimitTypes DEF Types, ClockInv, Running, Commands, Publishing, Before, Longest

\* Where the timeouts of the three commands together stay below TimeoutStartSec, as
\* those of the script and the unit do, systemd never kills the check for being late.
THEOREM CheckIsInTime ==
    ASSUME StartTimeout > Longest
    PROVE  Spec => []NeverTooLate
<1> DEFINE InTime == disturbance # "timeout"
<1>1. Init => InTime
  BY DEF Init
<1>2. Types /\ ClockInv => (Running => since < StartTimeout)
  BY ClockBound, LimitTypes DEF Types
<1>3. Types /\ ClockInv /\ InTime /\ [Next]_vars => InTime'
  <2> SUFFICES ASSUME Types, ClockInv, InTime, [Next]_vars PROVE InTime'
    OBVIOUS
  <2>1. CASE Kill
    <3>1. ~(since >= StartTimeout)
      BY <1>2, <2>1 DEF Kill, Types
    <3> QED
      BY <2>1, <3>1 DEF Kill
  <2>2. CASE ~Kill
    BY <2>2 DEF Next, Check, Change, Begin, IsActive, Probe, Show, Create, Write, Replace,
                CannotPublish, Unlink, Tick, fileVars, vars
  <2> QED
    BY <2>1, <2>2
<1>4. Types /\ ClockInv /\ InTime => NeverTooLate
  BY <1>2 DEF NeverTooLate
<1> HIDE DEF InTime
<1> QED
  BY <1>1, <1>3, <1>4, TypesAlways, ClockAlways, PTL DEF Spec

\* While checks are neither stopped nor fail to publish, the published time is never
\* older than a period and the longest check (led-service-check.py:45).
THEOREM PublishedIsRecent == Spec => []NeverStale
<1>1. Init => AgeInv
  BY DEF Init, AgeInv
<1>2. Types /\ AgeInv /\ [Next]_vars => AgeInv'
  <2> SUFFICES ASSUME Types, AgeInv, [Next]_vars PROVE AgeInv'
    OBVIOUS
  <2> USE DEF Types, AgeInv, Commands, Publishing
  <2>1. CASE Change BY <2>1 DEF Change, checkVars, fileVars
  <2>2. CASE Begin BY <2>2 DEF Begin
  <2>3. CASE IsActive \/ Probe \/ Show
    BY <2>3 DEF IsActive, Probe, Show, Enter, fileVars
  <2>4. CASE Create \/ Write BY <2>4 DEF Create, Write, Enter
  <2>5. CASE Replace \/ CannotPublish BY <2>5 DEF Replace, CannotPublish, Enter
  <2>6. CASE Unlink \/ Kill BY <2>6 DEF Unlink, Kill, End
  <2>7. CASE Tick BY <2>7 DEF Tick
  <2>8. CASE UNCHANGED vars BY <2>8 DEF vars
  <2> QED
    BY <2>1, <2>2, <2>3, <2>4, <2>5, <2>6, <2>7, <2>8 DEF Next, Check
<1>3. Types /\ ClockInv /\ AgeInv => NeverStale
  <2> SUFFICES ASSUME Types, ClockInv, AgeInv, file # "none", disturbance = "none"
               PROVE  age <= Oldest
    BY DEF NeverStale
  <2>1. CASE phase \in {"waiting", "unlink"}
    BY <2>1, LimitTypes DEF AgeInv, Types, Oldest
  <2>2. CASE phase \notin {"waiting", "unlink"}
    <3>1. since <= Longest
      BY <2>2, ClockBound DEF Running
    <3> QED
      BY <2>2, <3>1, LimitTypes DEF AgeInv, Types, Oldest
  <2> QED
    BY <2>1, <2>2
<1> QED
  BY <1>1, <1>2, <1>3, TypesAlways, ClockAlways, PTL DEF Spec
=============================================================================
