---------------------------- MODULE DisplayChannel ----------------------------
(***************************************************************************)
(* What the gRPC thread and the main thread of led-service2 share: the     *)
(* bounded queue of display requests (a std sync_channel, main.rs) and the *)
(* cancellation flag (a tokio watch channel, shutdown.rs).                 *)
(***************************************************************************)
EXTENDS Naturals, Sequences

CONSTANTS
    Requests,   \* the SendImage calls of one run of the program
    Capacity    \* the bound of the sync_channel, 10 in main.rs

ASSUME CapacityAssumption == Capacity \in Nat \ {0}

VARIABLES
    shutdown,   \* the watch value: has anyone called Shutdown::cancel?
    queue,      \* the admitted requests the worker has not received
    senders,    \* is a SyncSender alive (the service, or a copy of it)?
    receiver,   \* is the Receiver alive?
    faults      \* history: the failures that end the program, read by no action

channelVars == <<shutdown, queue, senders, receiver, faults>>

Faults == {"bind", "create", "clear", "overflow"}

ChannelTypeOK ==
    /\ shutdown \in BOOLEAN
    /\ queue \in Seq(Requests)
    /\ Len(queue) <= Capacity
    /\ senders \in BOOLEAN
    /\ receiver \in BOOLEAN
    /\ faults \subseteq Faults

ChannelInit ==
    /\ shutdown = FALSE
    /\ queue = <<>>
    /\ senders = TRUE
    /\ receiver = TRUE
    /\ faults = {}

\* The requests in the queue.
Queued == {queue[i] : i \in DOMAIN queue}

\* Shutdown::cancel, also run by CancelOnDrop: the flag is set and never reset.
Cancel == shutdown' = TRUE

\* SyncSender::try_send(r), when the receiver lives and a slot is free.
TrySend(r) == queue' = Append(queue, r)

\* Receiver::recv_timeout returns the oldest request.
Receive(r) ==
    /\ queue # <<>>
    /\ r = Head(queue)
    /\ queue' = Tail(queue)
=============================================================================
