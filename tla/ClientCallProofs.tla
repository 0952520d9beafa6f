--------------------------- MODULE ClientCallProofs ---------------------------
(***************************************************************************)
(* Theorems about calls of SendImage, for any callers, options and         *)
(* messages, and any capacity of the queue: what a caller is told, and     *)
(* what the queue holds, whichever version of the server is asked and      *)
(* whenever the server or a caller ends.                                   *)
(***************************************************************************)
EXTENDS ClientCall, TLAPS

\* The messages that can be sent, as either version sees them.
Sent ==
    {DefaultRequest} \cup (UNION {{ClientRequest(a) : a \in Args[c]} : c \in Callers})
        \cup (UNION {Requests[c] : c \in Callers})
Seen == Sent \cup {OlderView(r) : r \in Sent}
Entries == {DisplayRequest(c, r) : c \in Callers, r \in Seen}

Types ==
    /\ queue \in Seq(Entries)
    /\ pc \in [Callers -> {"idle", "started", "ready", "sent", "gone", "done"}]
    /\ kind \in [Callers -> {"none", "client", "probe", "other"}]
    /\ request \in [Callers -> Sent]
    /\ reply \in [Callers -> Statuses \cup {"none", "lost"}]
    /\ DOMAIN args = Callers /\ DOMAIN exit = Callers
    /\ admitted \in [Callers -> Nat]

\* What led-client sends has passed its own validation.
Prepared(c) ==
    /\ args[c].file # "unreadable" /\ ValidScrollOptions(args[c])
    /\ request[c] = ClientRequest(args[c])

Early == {"idle", "started", "ready"}
Out == {"ready", "sent", "gone"}

\* A call is admitted exactly when its answer is ok, whether or not anyone is told.
Told(c) ==
    /\ admitted[c] = IF reply[c] = "ok" THEN 1 ELSE 0
    /\ pc[c] \in Early => reply[c] = "none" /\ exit[c] = "none"
    /\ exit[c] = "success" /\ kind[c] # "probe" => reply[c] = "ok"

\* A client sends what it prepared and is refused only for an empty file.
ClientInv(c) ==
    kind[c] = "client" =>
        /\ args[c] \in Args[c]
        /\ pc[c] \in Out \/ reply[c] # "none" => Prepared(c)
        /\ reply[c] = "INVALID_ARGUMENT" => args[c].file = "empty"

\* The probe asks for what it can only be refused.
ProbeInv(c) ==
    kind[c] = "probe" =>
        /\ pc[c] # "started"
        /\ request[c] = ProbeRequest
        /\ reply[c] \in {"none", "lost", "UNAVAILABLE", "image_required"}

\* What a caller is decides what it does; nothing is known before it starts.
KindInv(c) ==
    /\ pc[c] = "idle" <=> kind[c] = "none"
    /\ pc[c] = "started" => kind[c] = "client"

CallInv(c) == Told(c) /\ ClientInv(c) /\ ProbeInv(c) /\ KindInv(c)

\* The mode that the options of a client stand for.
Scrolls(a) ==
    \/ a.mode = "Scroll" \/ a.cycles > 0
    \/ a.mode = "none" /\ MimeType(a) \in Ppms

ModeAsked(a) == IF Scrolls(a) THEN "ScrollHorizontal" ELSE "Static"

\* An entry of the queue can be played, and as its client asked.
Playable(d) ==
    IF d.cycles > 0 THEN d.mime \notin Gifs /\ Resolve(d.mode, d.mime) = "ScrollHorizontal"
    ELSE d.duration > 0

Entry(d) ==
    /\ d.from \in Callers /\ reply[d.from] = "ok"
    /\ Playable(d)
    /\ kind[d.from] = "client" => Resolve(d.mode, d.mime) = ModeAsked(args[d.from])

QueueInv == \A i \in 1..Len(queue) : Entry(queue[i])

CallsInv == Types /\ (\A c \in Callers : CallInv(c)) /\ QueueInv

-----------------------------------------------------------------------------
(* Validation: what both sides make of one message.                        *)

\* The view of the server that is installed.
View(c) == IF server = "older" THEN OlderView(request[c]) ELSE request[c]

\* What both versions of the server see of a client's message.
LEMMA ClientViews ==
    ASSUME NEW a, NEW r \in {ClientRequest(a), OlderView(ClientRequest(a))}
    PROVE  /\ r.image = a.file /\ r.mime = MimeType(a) /\ r.mode = DisplayModeOf(a)
           /\ r.duration = a.duration
           /\ \/ r.cycles = a.cycles /\ r.minimum = a.minimum
              \/ r.cycles = 0 /\ r.minimum = 0
<1>1. CASE r = ClientRequest(a)
  BY <1>1 DEF ClientRequest
<1>2. CASE r = OlderView(ClientRequest(a))
  BY <1>2 DEF ClientRequest, OlderView
<1> QED
  BY <1>1, <1>2

\* Both validations agree: what led-client lets through, both versions of the server
\* find valid, unless the file is empty (client.rs:49, service.rs:36).
LEMMA ClientIsValid ==
    ASSUME NEW a, IsArgs(a), a.file # "unreadable", ValidScrollOptions(a),
           NEW r \in {ClientRequest(a), OlderView(ClientRequest(a))}
    PROVE  Verdict(r) = "ok" \/ (Verdict(r) = "INVALID_ARGUMENT" /\ a.file = "empty")
<1>1. /\ r.image = a.file /\ r.mime = MimeType(a) /\ r.mode = DisplayModeOf(a)
      /\ r.duration = a.duration
      /\ \/ r.cycles = a.cycles /\ r.minimum = a.minimum
         \/ r.cycles = 0 /\ r.minimum = 0
  BY ClientViews
<1>2. /\ a.file \in {"empty", "data"} /\ a.mode \in {"none", "Static", "Scroll"}
      /\ a.duration \in Nat \ {0} /\ a.cycles \in Nat /\ a.minimum \in Nat
  BY DEF IsArgs
<1>3. CASE a.file = "empty"
  BY <1>1, <1>3 DEF Verdict
<1>4. CASE a.file = "data" /\ r.cycles > 0
  <2>1. r.cycles = a.cycles /\ a.cycles > 0
    BY <1>1, <1>2, <1>4
  <2>2. a.mode # "Static" /\ MimeType(a) \notin Gifs
    BY <2>1 DEF ValidScrollOptions
  <2>3. DisplayModeOf(a) = "Scroll"
    BY <1>2, <2>1, <2>2 DEF DisplayModeOf
  <2>4. CyclesPlayable(r)
    BY <1>1, <1>2, <2>2, <2>3 DEF CyclesPlayable, Resolve, Modes
  <2> QED
    BY <1>1, <1>4, <2>4 DEF Verdict
<1>5. CASE a.file = "data" /\ ~(r.cycles > 0)
  <2>1. r.minimum = 0
    BY <1>1, <1>2, <1>5 DEF ValidScrollOptions
  <2>2. DurationPlayable(r)
    BY <1>1, <1>2, <2>1 DEF DurationPlayable
  <2> QED
    BY <1>1, <1>5, <2>2 DEF Verdict
<1> QED
  BY <1>2, <1>3, <1>4, <1>5

\* The mode of a picture is the one its options stand for, on both versions.
LEMMA ClientMode ==
    ASSUME NEW a, IsArgs(a), ValidScrollOptions(a)
    PROVE  /\ DisplayModeOf(a) \in Modes
           /\ Resolve(DisplayModeOf(a), MimeType(a)) = ModeAsked(a)
<1>1. a.mode \in {"none", "Static", "Scroll"}
  BY DEF IsArgs
<1>2. CASE a.mode = "Scroll"
  BY <1>2 DEF DisplayModeOf, Modes, Resolve, ModeAsked, Scrolls
<1>3. CASE a.mode = "Static"
  BY <1>3 DEF DisplayModeOf, Modes, Resolve, ModeAsked, Scrolls, ValidScrollOptions
<1>4. CASE a.mode = "none" /\ a.cycles > 0
  BY <1>4 DEF DisplayModeOf, Modes, Resolve, ModeAsked, Scrolls
<1>5. CASE a.mode = "none" /\ ~(a.cycles > 0)
  BY <1>5 DEF DisplayModeOf, Modes, Resolve, ModeAsked, Scrolls
<1> QED
  BY <1>1, <1>2, <1>3, <1>4, <1>5

\* What passes the validation can be played.
LEMMA ValidIsPlayable ==
    ASSUME NEW c, NEW r, Verdict(r) = "ok"
    PROVE  Playable(DisplayRequest(c, r))
<1> DEFINE d == DisplayRequest(c, r)
<1>1. d.cycles = r.cycles /\ d.mime = r.mime
  BY DEF DisplayRequest
<1>2. IF r.cycles > 0 THEN CyclesPlayable(r) ELSE DurationPlayable(r)
  BY DEF Verdict
<1>3. CASE r.cycles > 0
  <2>1. d.mode = r.mode
    BY <1>2, <1>3 DEF DisplayRequest, CyclesPlayable
  <2> QED
    BY <1>1, <1>2, <1>3, <2>1 DEF Playable, CyclesPlayable
<1>4. CASE ~(r.cycles > 0)
  <2>1. d.duration = r.duration
    BY <1>4 DEF DisplayRequest
  <2> QED
    BY <1>1, <1>2, <1>4, <2>1 DEF Playable, DurationPlayable
<1> QED
  BY <1>3, <1>4

\* The probe is refused for its missing image before anything else is looked at.
LEMMA ProbeIsRefused ==
    ASSUME NEW r \in {ProbeRequest, OlderView(ProbeRequest)}
    PROVE  Verdict(r) = "image_required"
<1>1. CASE r = ProbeRequest
  BY <1>1 DEF ProbeRequest, DefaultRequest, Verdict
<1>2. CASE r = OlderView(ProbeRequest)
  BY <1>2 DEF ProbeRequest, DefaultRequest, OlderView, Verdict
<1> QED
  BY <1>1, <1>2

\* What each kind of caller may send.
LEMMA Sendable ==
    ASSUME NEW c \in Callers
    PROVE  /\ DefaultRequest \in Sent
           /\ \A a \in Args[c] : ClientRequest(a) \in Sent
           /\ \A r \in Requests[c] : r \in Sent
<1>1. DefaultRequest \in Sent
  BY DEF Sent
<1>2. ASSUME NEW a \in Args[c] PROVE ClientRequest(a) \in Sent
  <2>1. ClientRequest(a) \in {ClientRequest(b) : b \in Args[c]}
    OBVIOUS
  <2> QED
    BY <2>1, Zenon DEF Sent
<1>3. ASSUME NEW r \in Requests[c] PROVE r \in Sent
  <2>1. r \in UNION {Requests[b] : b \in Callers}
    BY <1>3
  <2> QED
    BY <2>1 DEF Sent
<1> QED
  BY <1>1, <1>2, <1>3

-----------------------------------------------------------------------------
(* Steps of a caller.                                                      *)

\* A step that leaves a caller's share of the state alone keeps what holds of it.
LEMMA OtherCaller ==
    ASSUME NEW o \in Callers, CallInv(o), kind'[o] = kind[o], args'[o] = args[o],
           request'[o] = request[o], pc'[o] = pc[o], reply'[o] = reply[o],
           exit'[o] = exit[o], admitted'[o] = admitted[o]
    PROVE  CallInv(o)'
BY DEF CallInv, Told, ClientInv, Prepared, ProbeInv, KindInv

\* Entries of callers whose answers stay keep what holds of them.
LEMMA SameEntries ==
    ASSUME CallsInv, UNCHANGED <<queue, reply>>,
           \A o \in Callers : pc[o] \notin Early => kind'[o] = kind[o] /\ args'[o] = args[o]
    PROVE  QueueInv'
<1>1. \A i \in 1..Len(queue) : Entry(queue[i])
  BY DEF CallsInv, QueueInv
<1>2. ASSUME NEW i \in 1..Len(queue) PROVE Entry(queue[i])'
  <2> DEFINE d == queue[i]
  <2>1. d.from \in Callers /\ reply[d.from] = "ok" /\ Entry(d)
    BY <1>1 DEF Entry
  <2>2. pc[d.from] \notin Early
    BY <2>1 DEF CallsInv, CallInv, Told
  <2>3. kind'[d.from] = kind[d.from] /\ args'[d.from] = args[d.from]
    BY <2>1, <2>2
  <2> QED
    BY <2>1, <2>3 DEF Entry
<1> QED
  BY <1>2 DEF QueueInv

\* A step of the caller itself, from its start to its end.
LEMMA CallKeeps ==
    ASSUME CallsInv, NEW c \in Callers, Call(c)
    PROVE  CallsInv'
<1> USE DEF Types
<1>1. Types
  BY DEF CallsInv
<1>2. CallInv(c)
  BY DEF CallsInv
<1>3. UNCHANGED <<queue, reply, admitted>>
  BY DEF Call, StartClient, PrepareClient, StartProbe, StartOther, Connect, ConnectFails,
         GiveUp, Finish
<1>4. \A o \in Callers : o # c => /\ kind'[o] = kind[o] /\ args'[o] = args[o]
                                  /\ request'[o] = request[o] /\ pc'[o] = pc[o]
                                  /\ exit'[o] = exit[o]
  BY <1>1 DEF Call, StartClient, PrepareClient, StartProbe, StartOther, Connect,
              ConnectFails, GiveUp, Finish, Step, Exit
<1>5. \A o \in Callers : o # c => CallInv(o)'
  BY <1>3, <1>4, OtherCaller DEF CallsInv
<1>6. pc[c] \notin Early => kind'[c] = kind[c] /\ args'[c] = args[c]
  BY <1>1 DEF Call, StartClient, PrepareClient, StartProbe, StartOther, Connect,
              ConnectFails, GiveUp, Finish, Step, Exit, Early
<1>7. QueueInv'
  BY <1>3, <1>4, <1>6, SameEntries
<1>8. Types' /\ CallInv(c)'
  <2> USE <1>1, <1>2, <1>3 DEF CallInv, Told, ClientInv, Prepared, ProbeInv, KindInv, Step,
                               Exit, Early, Out
  <2>1. CASE StartClient(c)
    BY <2>1 DEF StartClient
  <2>2. CASE PrepareClient(c)
    <3>1. pc[c] = "started" /\ kind[c] = "client" /\ args[c] \in Args[c]
      BY <2>2 DEF PrepareClient
    <3>2. ClientRequest(args[c]) \in Sent
      BY <3>1, Sendable
    <3>3. CASE args[c].file # "unreadable" /\ ValidScrollOptions(args[c])
      <4>1. /\ pc' = [pc EXCEPT ![c] = "ready"]
            /\ request' = [request EXCEPT ![c] = ClientRequest(args[c])]
            /\ UNCHANGED <<queue, kind, args, reply, exit, admitted>>
        BY <2>2, <3>3 DEF PrepareClient
      <4>2. Types'
        BY <3>2, <4>1
      <4>3. CallInv(c)'
        BY <3>1, <3>3, <4>1
      <4> QED
        BY <4>2, <4>3
    <3>4. CASE ~(args[c].file # "unreadable" /\ ValidScrollOptions(args[c]))
      <4>1. /\ pc' = [pc EXCEPT ![c] = "done"] /\ exit' = [exit EXCEPT ![c] = "failure"]
            /\ UNCHANGED <<queue, kind, args, request, reply, admitted>>
        BY <2>2, <3>4 DEF PrepareClient
      <4>2. Types'
        BY <4>1
      <4>3. CallInv(c)'
        BY <3>1, <4>1
      <4> QED
        BY <4>2, <4>3
    <3> QED
      BY <3>3, <3>4
  <2>3. CASE StartProbe(c)
    BY <2>3, Sendable DEF StartProbe, ProbeRequest
  <2>4. CASE StartOther(c)
    BY <2>4, Sendable DEF StartOther
  <2>5. CASE Connect(c)
    BY <2>5 DEF Connect
  <2>6. CASE ConnectFails(c)
    BY <2>6 DEF ConnectFails
  <2>7. CASE GiveUp(c)
    BY <2>7 DEF GiveUp
  <2>8. CASE Finish(c)
    BY <2>8 DEF Finish, Success, Probes
  <2> QED
    BY <2>1, <2>2, <2>3, <2>4, <2>5, <2>6, <2>7, <2>8 DEF Call
<1> QED
  BY <1>5, <1>7, <1>8 DEF CallsInv

-----------------------------------------------------------------------------
(* Steps of the server.                                                    *)

\* An answer leaves the entries of the other calls alone.
LEMMA AnsweredEntries ==
    ASSUME CallsInv, NEW c \in Callers, reply[c] = "none", NEW status \in Statuses,
           reply' = [reply EXCEPT ![c] = status], UNCHANGED <<kind, args>>
    PROVE  \A d : Entry(d) => Entry(d)'
BY DEF CallsInv, Types, Entry

\* A call that is refused.
LEMMA RefuseKeeps ==
    ASSUME CallsInv, NEW c \in Callers, Pending(c),
           UNCHANGED <<kind, args, request, pc, exit>>,
           NEW status \in Statuses \ {"ok"}, Refuse(c, status),
           kind[c] = "client" /\ status = "INVALID_ARGUMENT" => args[c].file = "empty",
           kind[c] = "probe" => status \in {"UNAVAILABLE", "image_required"}
    PROVE  CallsInv'
<1>1. /\ Types /\ CallInv(c) /\ QueueInv /\ pc[c] \in {"sent", "gone"} /\ reply[c] = "none"
      /\ reply' = [reply EXCEPT ![c] = status] /\ UNCHANGED <<queue, admitted>>
  BY DEF CallsInv, Pending, Refuse, Respond
<1>2. Types'
  BY <1>1 DEF Types
<1>3. \A o \in Callers : o # c => CallInv(o)'
  BY <1>1, OtherCaller DEF CallsInv, Types
<1>4. CallInv(c)'
  BY <1>1 DEF CallInv, Types, Told, ClientInv, Prepared, ProbeInv, KindInv, Early, Out
<1>5. QueueInv'
  BY <1>1, AnsweredEntries DEF QueueInv
<1> QED
  BY <1>2, <1>3, <1>4, <1>5 DEF CallsInv

\* A call that is admitted.
LEMMA AdmitKeeps ==
    ASSUME CallsInv, NEW c \in Callers, Pending(c),
           UNCHANGED <<kind, args, request, pc, exit>>,
           NEW r \in {request[c], OlderView(request[c])}, Verdict(r) = "ok",
           kind[c] # "probe", queue' = Append(queue, DisplayRequest(c, r)),
           admitted' = [admitted EXCEPT ![c] = @ + 1], Respond(c, "ok")
    PROVE  CallsInv'
<1> DEFINE d == DisplayRequest(c, r)
<1>1. /\ Types /\ CallInv(c) /\ QueueInv /\ pc[c] \in {"sent", "gone"} /\ reply[c] = "none"
      /\ reply' = [reply EXCEPT ![c] = "ok"] /\ "ok" \in Statuses
  BY DEF CallsInv, Pending, Respond, Statuses
<1>2. r \in Seen
  BY <1>1 DEF Types, Seen
<1>3. d \in Entries
  BY <1>2 DEF Entries
<1>4. /\ d.from = c /\ d.mime = r.mime
      /\ d.mode = IF r.mode \in Modes THEN r.mode ELSE "Unspecified"
  BY DEF DisplayRequest
<1>5. Playable(d)
  BY ValidIsPlayable
<1>6. ASSUME kind[c] = "client" PROVE Resolve(d.mode, d.mime) = ModeAsked(args[c])
  <2> DEFINE a == args[c]
  <2>1. a \in Args[c] /\ ValidScrollOptions(a) /\ request[c] = ClientRequest(a)
    BY <1>1, <1>6 DEF CallInv, ClientInv, Prepared, Out
  <2>2. IsArgs(a)
    BY <2>1, ClientCallAssumption
  <2>3. r.mime = MimeType(a) /\ r.mode = DisplayModeOf(a)
    <3>1. r \in {ClientRequest(a), OlderView(ClientRequest(a))}
      BY <2>1
    <3> QED
      BY <3>1, ClientViews
  <2> QED
    BY <1>4, <2>1, <2>2, <2>3, ClientMode
<1> HIDE DEF d
<1>7. queue \in Seq(Entries) /\ queue' = Append(queue, d)
  BY <1>1 DEF Types, d
<1>8. Types'
  BY <1>1, <1>3, <1>7 DEF Types
<1>9. \A o \in Callers : o # c => CallInv(o)'
  BY <1>1, OtherCaller DEF CallsInv, Types
<1>10. CallInv(c)'
  BY <1>1 DEF CallInv, Types, Told, ClientInv, Prepared, ProbeInv, KindInv, Early, Out
<1>11. \A e : Entry(e) => Entry(e)'
  BY <1>1, AnsweredEntries
<1>12. Entry(d)'
  BY <1>1, <1>4, <1>5, <1>6 DEF Entry, Types
<1>13. QueueInv'
  <2>1. \A i \in 1..Len(queue') : IF i = Len(queue) + 1 THEN queue'[i] = d
                                  ELSE i \in 1..Len(queue) /\ queue'[i] = queue[i]
    BY <1>3, <1>7
  <2>2. ASSUME NEW i \in 1..Len(queue') PROVE Entry(queue[i])'
    <3>1. CASE i = Len(queue) + 1
      BY <1>12, <2>1, <3>1 DEF Entry
    <3>2. CASE i # Len(queue) + 1
      <4>1. queue'[i] = queue[i] /\ Entry(queue[i])
        BY <1>1, <2>1, <3>2 DEF QueueInv
      <4> QED
        BY <1>11, <4>1 DEF Entry
    <3> QED
      BY <3>1, <3>2
  <2> QED
    BY <2>2 DEF QueueInv
<1> QED
  BY <1>8, <1>9, <1>10, <1>13 DEF CallsInv

\* What the handler makes of a call that waits.
LEMMA HandleKeeps ==
    ASSUME CallsInv, NEW c \in Callers, Handle(c)
    PROVE  CallsInv'
<1> DEFINE r == View(c)
<1>1. Pending(c) /\ UNCHANGED <<kind, args, request, pc, exit>> /\ pc[c] \in Out
  BY DEF Handle, Pending, Out
<1>2. r \in {request[c], OlderView(request[c])}
  BY DEF View
<1>3. \/ Refuse(c, "UNAVAILABLE")
      \/ Verdict(r) # "ok" /\ Refuse(c, Verdict(r))
      \/ Verdict(r) = "ok" /\ Refuse(c, "RESOURCE_EXHAUSTED")
      \/ /\ Verdict(r) = "ok" /\ queue' = Append(queue, DisplayRequest(c, r))
         /\ admitted' = [admitted EXCEPT ![c] = @ + 1] /\ Respond(c, "ok")
  BY DEF Handle, View, StatusFull
<1> HIDE DEF r
<1>4. Verdict(r) \in {"ok", "image_required", "INVALID_ARGUMENT"}
  BY DEF Verdict
<1>5. ASSUME kind[c] = "probe" PROVE Verdict(r) = "image_required"
  <2>1. request[c] = ProbeRequest
    BY <1>5 DEF CallsInv, CallInv, ProbeInv
  <2> QED
    BY <1>2, <2>1, ProbeIsRefused
<1>6. ASSUME kind[c] = "client" PROVE Verdict(r) = "INVALID_ARGUMENT" => args[c].file = "empty"
  <2> DEFINE a == args[c]
  <2>1. /\ a \in Args[c] /\ ValidScrollOptions(a) /\ request[c] = ClientRequest(a)
        /\ a.file # "unreadable"
    BY <1>1, <1>6 DEF CallsInv, CallInv, ClientInv, Prepared
  <2>2. IsArgs(a)
    BY <2>1, ClientCallAssumption
  <2> QED
    BY <1>2, <2>1, <2>2, ClientIsValid
<1>7. CASE Refuse(c, "UNAVAILABLE")
  BY <1>1, <1>7, RefuseKeeps DEF Statuses
<1>8. CASE Verdict(r) # "ok" /\ Refuse(c, Verdict(r))
  BY <1>1, <1>4, <1>5, <1>6, <1>8, RefuseKeeps DEF Statuses
<1>9. CASE Verdict(r) = "ok" /\ Refuse(c, "RESOURCE_EXHAUSTED")
  BY <1>1, <1>5, <1>9, RefuseKeeps DEF Statuses
<1>10. CASE /\ Verdict(r) = "ok" /\ queue' = Append(queue, DisplayRequest(c, r))
            /\ admitted' = [admitted EXCEPT ![c] = @ + 1] /\ Respond(c, "ok")
  BY <1>1, <1>2, <1>5, <1>10, AdmitKeeps
<1> QED
  BY <1>3, <1>7, <1>8, <1>9, <1>10

\* The worker takes the oldest entry, the others move up.
LEMMA TakeKeeps ==
    ASSUME CallsInv, Take
    PROVE  CallsInv'
<1>1. /\ queue \in Seq(Entries) /\ queue # <<>> /\ queue' = Tail(queue)
      /\ UNCHANGED <<kind, args, request, pc, reply, exit, admitted>>
  BY DEF Take, CallsInv, Types
<1>2. /\ queue' \in Seq(Entries)
      /\ \A i \in 1..Len(queue') : i + 1 \in 1..Len(queue) /\ queue'[i] = queue[i + 1]
  BY <1>1
<1>3. Types'
  BY <1>1, <1>2 DEF CallsInv, Types
<1>4. \A c \in Callers : CallInv(c)'
  BY <1>1, OtherCaller DEF CallsInv
<1>5. \A d : Entry(d) => Entry(d)'
  BY <1>1 DEF Entry
<1>6. ASSUME NEW i \in 1..Len(queue') PROVE Entry(queue[i])'
  <2>1. queue'[i] = queue[i + 1] /\ Entry(queue[i + 1])
    BY <1>2 DEF CallsInv, QueueInv
  <2> QED
    BY <1>5, <2>1 DEF Entry
<1> QED
  BY <1>3, <1>4, <1>6 DEF CallsInv, QueueInv

\* The process ends: the queue is gone, and whoever waits is told nothing.
LEMMA DieKeeps ==
    ASSUME CallsInv, Die
    PROVE  CallsInv'
<1>1. /\ Types /\ queue' = <<>> /\ UNCHANGED <<kind, args, request, pc, exit, admitted>>
      /\ reply' = [c \in Callers |-> IF Pending(c) THEN "lost" ELSE reply[c]]
  BY DEF Die, CallsInv
<1>2. Types'
  BY <1>1 DEF Types
<1>3. ASSUME NEW c \in Callers PROVE CallInv(c)'
  <2>1. CallInv(c) /\ reply'[c] = IF Pending(c) THEN "lost" ELSE reply[c]
    BY <1>1 DEF CallsInv
  <2>2. CASE Pending(c)
    BY <1>1, <2>1, <2>2
    DEF CallInv, Pending, Told, ClientInv, Prepared, ProbeInv, KindInv, Early, Out
  <2>3. CASE ~Pending(c)
    BY <1>1, <2>1, <2>3, OtherCaller
  <2> QED
    BY <2>2, <2>3
<1>4. QueueInv'
  BY <1>1 DEF QueueInv
<1> QED
  BY <1>2, <1>3, <1>4 DEF CallsInv

-----------------------------------------------------------------------------
(* In every behaviour.                                                     *)

LEMMA CallsAlways == Spec => []CallsInv
<1>1. Init => CallsInv
  <2> SUFFICES ASSUME Init PROVE CallsInv
    OBVIOUS
  <2>1. Types
    BY Sendable DEF Init, Types
  <2>2. \A c \in Callers : CallInv(c)
    BY DEF Init, CallInv, Told, ClientInv, ProbeInv, KindInv
  <2>3. QueueInv
    BY DEF Init, QueueInv
  <2> QED
    BY <2>1, <2>2, <2>3 DEF CallsInv
<1>2. CallsInv /\ [Next]_vars => CallsInv'
  <2> SUFFICES ASSUME CallsInv, [Next]_vars PROVE CallsInv'
    OBVIOUS
  <2>1. ASSUME NEW c \in Callers, Call(c) PROVE CallsInv'
    BY <2>1, CallKeeps
  <2>2. ASSUME NEW c \in Callers, Handle(c) PROVE CallsInv'
    BY <2>2, HandleKeeps
  <2>3. CASE Take
    BY <2>3, TakeKeeps
  <2>4. CASE Die
    BY <2>4, DieKeeps
  <2>5. CASE Stop \/ Install \/ UNCHANGED vars
    <3>1. UNCHANGED <<queue, kind, args, request, pc, reply, exit, admitted>>
      BY <2>5 DEF Stop, Install, vars
    <3>2. Types' /\ QueueInv'
      BY <3>1, SameEntries DEF CallsInv, Types
    <3>3. \A c \in Callers : CallInv(c)'
      BY <3>1, OtherCaller DEF CallsInv
    <3> QED
      BY <3>2, <3>3 DEF CallsInv
  <2> QED
    BY <2>1, <2>2, <2>3, <2>4, <2>5 DEF Next
<1> QED
  BY <1>1, <1>2, PTL DEF Spec

\* led-client sends nothing that either version of the server finds invalid, except an
\* empty file: validate_scroll_options (client.rs:49) against send_image (service.rs:36).
THEOREM ClientsPassValidation == Spec => []LetThroughIsValid
<1>1. CallsInv => LetThroughIsValid
  BY DEF CallsInv, CallInv, ClientInv, LetThroughIsValid, Clients
<1> QED
  BY <1>1, CallsAlways, PTL

\* What the queue holds can be played, in the mode its user asked for, also after an
\* older server has dropped the cycles.
THEOREM QueueHoldsWhatWasAsked == Spec => []AdmittedAsAsked
<1>1. CallsInv => AdmittedAsAsked
  <2> SUFFICES ASSUME CallsInv, NEW i \in 1..Len(queue)
               PROVE  LET d == queue[i]
                          a == args[d.from]
                          scrolls == \/ a.mode = "Scroll" \/ a.cycles > 0
                                     \/ a.mode = "none" /\ MimeType(a) \in Ppms
                          mode == Resolve(d.mode, d.mime)
                      IN  /\ IF d.cycles > 0
                             THEN d.mime \notin Gifs /\ mode = "ScrollHorizontal"
                             ELSE d.duration > 0
                          /\ d.from \in Clients =>
                               mode = IF scrolls THEN "ScrollHorizontal" ELSE "Static"
    BY DEF AdmittedAsAsked
  <2>1. Entry(queue[i])
    BY DEF CallsInv, QueueInv
  <2> QED
    BY <2>1 DEF Entry, Playable, ModeAsked, Scrolls, Clients
<1> QED
  BY <1>1, CallsAlways, PTL

\* A caller that is told success was admitted once, one that is told a status was not.
THEOREM ReportsAreHonest == Spec => []ReportHonest
<1>1. CallsInv => ReportHonest
  BY DEF CallsInv, CallInv, Told, ReportHonest, Probes
<1> QED
  BY <1>1, CallsAlways, PTL

\* The probe never puts anything into the queue, and is told what it waits for by every
\* server that answers it and is not stopping.
THEOREM ProbesAreHonest == Spec => []ProbeHonest
<1>1. CallsInv => ProbeHonest
  BY DEF CallsInv, CallInv, Told, ProbeInv, ProbeHonest, Probes
<1> QED
  BY <1>1, CallsAlways, PTL
=============================================================================
